---- MODULE Spec2Model ----
(***************************************************************************)
(* Spaced-repetition scheduler (SM-2 variant) of the flashcard application *)
(* and the code around it: the card selector piocher_carte and the         *)
(* vote_card request handler with its progress store.                      *)
(*                                                                         *)
(* Number representation.                                                  *)
(*   - ease_factor, easy_bonus, interval_modifier, starting_ease and       *)
(*     min_ease are Python floats with at most two decimals; they are      *)
(*     held here in hundredths (2.5 is 250).  The products the code        *)
(*     truncates with int() are computed in exact decimal arithmetic: the  *)
(*     binary rounding error of the float product (below 1e-9) is not      *)
(*     modelled.                                                           *)
(*   - a datetime is a number of minutes; timedelta(minutes=m) is m and    *)
(*     timedelta(days=d) is 1440 * d.                                      *)
(*   - Python's None is the value None below.                              *)
(***************************************************************************)
EXTENDS Integers, Sequences, FiniteSets, TLC

VARIABLES
    clock,      \* the system clock, what datetime.now() returns
    card,       \* the AnkiCard of one learner and one flashcard
    reviews,    \* how many ratings that card has received
    hist,       \* the ratings of a session, oldest first
    arg_card,   \* calculate_next_review called on its own: the card passed,
    arg_rating, \*   the rating passed,
    arg_config, \*   the configuration passed,
    ret,        \*   and what each invocation returned, with the clock it read
    flashcards,     \* table flashcards: the ids of the cards of the deck
    user_progress,  \* table user_progress: a set of rows
    pioche,         \* what piocher_carte returned, with the clock it read
    users,          \* table users: streak_count and last_streak_date per user
    daily_activity, \* table daily_activity: a set of rows
    req,            \* the request each server thread is serving: where it
                    \*   is in vote_card, its arguments, its local variables
    served,         \* the arguments of the requests received, oldest first
    decks,           \* table decks: a set of rows
    deck_cards,      \* table flashcards with its columns: a set of rows
    sqlite_sequence, \* the largest id AUTOINCREMENT has given, per table
    calls,           \* the database calls made, with what each returned
    counts,          \* what the counting functions returned, with the clock
    program,    \* the with-statements being run: the context managers,
                \*   outermost first, and whether the innermost body raises
    frames,     \* the contexts entered and not yet left, with what was bound
    order,      \* what the decorated functions and the body did, in order
    exited,     \* the __exit__ calls made: the exception passed, the return
    raising,    \* the exception propagating, "" when there is none
    phase       \* "enter", "exit", or "done" once control is back

schedVars == <<card, reviews, hist>>
fnVars == <<arg_card, arg_rating, arg_config, ret>>
dbVars == <<flashcards, user_progress>>
selVars == <<pioche>>
voteVars == <<users, daily_activity, req, served>>
tableVars == <<decks, deck_cards, sqlite_sequence, calls>>
statVars == <<counts>>
withVars == <<program, frames, order, exited, raising, phase>>
moreVars == <<tableVars, statVars, withVars>>
vars == <<clock, schedVars, fnVars, dbVars, selVars, voteVars, moreVars>>

----------------------------------------------------------------------------
(* Bounds of the model.                                                    *)

\* the clock stops ticking at MaxClock
MaxClock == 1
\* a card receives at most MaxReviews ratings
MaxReviews == 9
\* a recorded session has at most SessionLen ratings
SessionLen == 5
\* calculate_next_review is invoked at most MaxCalls times on the same arguments
MaxCalls == 2
\* the cards passed to it have every interval up to MaxInterval (and some
\* larger ones) and every repetition count up to MaxReps
MaxInterval == 7
MaxReps == 2
\* the deck has at most NumCards flashcards
NumCards == 3
\* the stored due dates and the clock of a deck snapshot fall on the first
\* MaxMinute + 1 minutes of the first MaxDay + 1 days
MaxDay == 1
MaxMinute == 1
\* at most NumRequests vote_card requests are received
NumRequests == 2

\* the deck the requests rate has DeckSize flashcards
DeckSize == 2

\* at most MaxStatements calls are made to the deck and progress functions
MaxStatements == 4

\* with-statements are nested at most MaxDepth deep
MaxDepth == 2

----------------------------------------------------------------------------
(* Values.                                                                 *)

None == -1

Again == 0
Hard == 1
Good == 2
Easy == 3

Ratings == {Again, Hard, Good, Easy}

DEFAULT_CONFIG ==
    [ learning_steps      |-> <<1, 10>>,
      graduating_interval |-> 1,
      easy_interval       |-> 4,
      starting_ease       |-> 250,
      easy_bonus          |-> 130,
      interval_modifier   |-> 100,
      max_interval        |-> 36500,
      min_ease            |-> 130 ]

Max(a, b) == IF a >= b THEN a ELSE b
Min(a, b) == IF a <= b THEN a ELSE b

timedelta_minutes(m) == m

timedelta_days(d) == 1440 * d

(* int(n * f1 * f2 * ...) for an integer n >= 0 and factors given in       *)
(* hundredths.  The running product is q + r / d, kept exact: multiplying  *)
(* by f / 100 gives (q * f) \div 100 plus a fraction over 100 * d.         *)
RECURSIVE MulAcc(_, _, _, _)
MulAcc(q, r, d, factors) ==
    IF factors = <<>> THEN q
    ELSE LET f  == Head(factors)
             qf == q * f
             nr == (qf % 100) * d + r * f
             nd == 100 * d
         IN  MulAcc((qf \div 100) + (nr \div nd), nr % nd, nd, Tail(factors))

IntOfProduct(n, factors) == MulAcc(n, 0, 1, factors)

----------------------------------------------------------------------------
(* AnkiCard and calculate_next_review.                                     *)

AnkiCard(ease_factor, interval, due_date, step, is_learning, repetitions, now) ==
    [ ease_factor |-> IF ease_factor = None \/ ease_factor = 0
                      THEN DEFAULT_CONFIG.starting_ease ELSE ease_factor,
      interval    |-> interval,
      due_date    |-> IF due_date = None THEN now ELSE due_date,
      step        |-> step,
      is_learning |-> is_learning,
      repetitions |-> repetitions ]

\* AnkiCard(): the card of a flashcard never rated
NewCard(now) == AnkiCard(None, 0, None, 0, TRUE, 0, now)

IndexError == [raised |-> "IndexError"]

\* config['learning_steps'][i], a 0-based lookup, is defined; a negative
\* index counts from the end of the list
StepDefined(config, i) ==
    i >= -Len(config.learning_steps) /\ i < Len(config.learning_steps)

StepMinutes(config, i) ==
    config.learning_steps[IF i >= 0 THEN i + 1
                          ELSE Len(config.learning_steps) + i + 1]

\* an Again rule that lowers the ease factor as a lapse does
LearningAgainLowersEase(c, config, now) ==
    IF ~StepDefined(config, 0) THEN IndexError
    ELSE [c EXCEPT !.step = 0,
                   !.due_date = now + timedelta_minutes(StepMinutes(config, 0)),
                   !.ease_factor = Max(config.min_ease, c.ease_factor - 20)]

\* an Again rule that leaves the card due at once
LearningAgainDueAtOnce(c, config, now) ==
    IF ~StepDefined(config, 0) THEN IndexError
    ELSE [c EXCEPT !.step = 0, !.due_date = now]

LearningAgain(c, config, now) ==
    IF ~StepDefined(config, 0) THEN IndexError
    ELSE [c EXCEPT !.step = 0,
                   !.due_date = now + timedelta_minutes(StepMinutes(config, 0))]

\* a Hard rule that waits the first step whatever the current one
LearningHardFirstStep(c, config, now) ==
    IF ~StepDefined(config, c.step) THEN IndexError
    ELSE [c EXCEPT !.due_date = now + timedelta_minutes(StepMinutes(config, 0))]

LearningHard(c, config, now) ==
    IF ~StepDefined(config, c.step) THEN IndexError
    ELSE [c EXCEPT !.due_date = now + timedelta_minutes(StepMinutes(config, c.step))]

\* a Good rule that repeats the last step instead of graduating
LearningGoodRepeatsLastStep(c, config, now) ==
    IF c.step < Len(config.learning_steps) - 1
    THEN IF ~StepDefined(config, c.step + 1) THEN IndexError
         ELSE [c EXCEPT !.step = c.step + 1,
                        !.due_date = now + timedelta_minutes(StepMinutes(config, c.step + 1))]
    ELSE [c EXCEPT !.due_date = now + timedelta_minutes(StepMinutes(config, c.step))]

\* a Good rule that advances the step and waits the step it left
LearningGoodOldDelay(c, config, now) ==
    IF c.step < Len(config.learning_steps) - 1
    THEN IF ~StepDefined(config, c.step + 1) THEN IndexError
         ELSE [c EXCEPT !.step = c.step + 1,
                        !.due_date = now + timedelta_minutes(StepMinutes(config, c.step))]
    ELSE [c EXCEPT !.is_learning = FALSE,
                   !.interval = config.graduating_interval,
                   !.due_date = now + timedelta_days(config.graduating_interval),
                   !.repetitions = 1]

\* a Good rule that counts the graduation as one more step
LearningGoodStepsPastLast(c, config, now) ==
    IF c.step < Len(config.learning_steps) - 1
    THEN IF ~StepDefined(config, c.step + 1) THEN IndexError
         ELSE [c EXCEPT !.step = c.step + 1,
                        !.due_date = now + timedelta_minutes(StepMinutes(config, c.step + 1))]
    ELSE [c EXCEPT !.is_learning = FALSE,
                   !.step = c.step + 1,
                   !.interval = config.graduating_interval,
                   !.due_date = now + timedelta_days(config.graduating_interval),
                   !.repetitions = 1]

LearningGood(c, config, now) ==
    IF c.step < Len(config.learning_steps) - 1
    THEN IF ~StepDefined(config, c.step + 1) THEN IndexError
         ELSE [c EXCEPT !.step = c.step + 1,
                        !.due_date = now + timedelta_minutes(StepMinutes(config, c.step + 1))]
    ELSE [c EXCEPT !.is_learning = FALSE,
                   !.interval = config.graduating_interval,
                   !.due_date = now + timedelta_days(config.graduating_interval),
                   !.repetitions = 1]

\* an Easy rule that graduates with the interval of Good
LearningEasyAsGood(c, config, now) ==
    [c EXCEPT !.is_learning = FALSE,
              !.interval = config.graduating_interval,
              !.due_date = now + timedelta_days(config.graduating_interval),
              !.repetitions = 1]

LearningEasy(c, config, now) ==
    [c EXCEPT !.is_learning = FALSE,
              !.interval = config.easy_interval,
              !.due_date = now + timedelta_days(config.easy_interval),
              !.repetitions = 1]

\* a lapse that leaves the card in Review
ReviewAgainStaysInReview(c, config, now) ==
    IF ~StepDefined(config, 0) THEN IndexError
    ELSE [c EXCEPT !.step = 0,
                   !.due_date = now + timedelta_minutes(StepMinutes(config, 0)),
                   !.repetitions = 0,
                   !.ease_factor = Max(config.min_ease, c.ease_factor - 20)]

\* a lapse that keeps the repetition count
ReviewAgainKeepsRepetitions(c, config, now) ==
    IF ~StepDefined(config, 0) THEN IndexError
    ELSE [c EXCEPT !.is_learning = TRUE,
                   !.step = 0,
                   !.due_date = now + timedelta_minutes(StepMinutes(config, 0)),
                   !.ease_factor = Max(config.min_ease, c.ease_factor - 20)]

ReviewAgain(c, config, now) ==
    IF ~StepDefined(config, 0) THEN IndexError
    ELSE [c EXCEPT !.is_learning = TRUE,
                   !.step = 0,
                   !.due_date = now + timedelta_minutes(StepMinutes(config, 0)),
                   !.repetitions = 0,
                   !.ease_factor = Max(config.min_ease, c.ease_factor - 20)]

\* a Hard rule that rounds the product to the nearest integer
ReviewHardRounded(c, config, now) ==
    LET interval == (c.interval * 120 + 50) \div 100
    IN  [c EXCEPT !.interval = interval,
                  !.due_date = now + timedelta_days(interval),
                  !.ease_factor = Max(config.min_ease, c.ease_factor - 15),
                  !.repetitions = c.repetitions + 1]

\* a Hard rule that does not count the review
ReviewHardKeepsRepetitions(c, config, now) ==
    LET interval == IntOfProduct(c.interval, <<120>>)
    IN  [c EXCEPT !.interval = interval,
                  !.due_date = now + timedelta_days(interval),
                  !.ease_factor = Max(config.min_ease, c.ease_factor - 15)]

ReviewHard(c, config, now) ==
    LET interval == IntOfProduct(c.interval, <<120>>)
    IN  [c EXCEPT !.interval = interval,
                  !.due_date = now + timedelta_days(interval),
                  !.ease_factor = Max(config.min_ease, c.ease_factor - 15),
                  !.repetitions = c.repetitions + 1]

\* a Good rule that grows every interval by the ease factor, first reviews included
ReviewGoodByProduct(c, config, now) ==
    LET raw == IntOfProduct(c.interval, <<c.ease_factor, config.interval_modifier>>)
        interval == Min(raw, config.max_interval)
    IN  [c EXCEPT !.interval = interval,
                  !.due_date = now + timedelta_days(interval),
                  !.repetitions = c.repetitions + 1]

\* a Good rule without the cap at max_interval
ReviewGoodUncapped(c, config, now) ==
    LET interval == IF c.repetitions = 0 THEN 1
                    ELSE IF c.repetitions = 1 THEN 6
                    ELSE IntOfProduct(c.interval,
                             <<c.ease_factor, config.interval_modifier>>)
    IN  [c EXCEPT !.interval = interval,
                  !.due_date = now + timedelta_days(interval),
                  !.repetitions = c.repetitions + 1]

ReviewGood(c, config, now) ==
    LET raw == IF c.repetitions = 0 THEN 1
               ELSE IF c.repetitions = 1 THEN 6
               ELSE IntOfProduct(c.interval, <<c.ease_factor, config.interval_modifier>>)
        interval == Min(raw, config.max_interval)
    IN  [c EXCEPT !.interval = interval,
                  !.due_date = now + timedelta_days(interval),
                  !.repetitions = c.repetitions + 1]

\* an Easy rule that grows the interval by the bonus alone
ReviewEasyBonusOnly(c, config, now) ==
    LET raw == IF c.repetitions = 0 THEN config.easy_interval
               ELSE IntOfProduct(c.interval, <<config.easy_bonus, config.interval_modifier>>)
        interval == Min(raw, config.max_interval)
    IN  [c EXCEPT !.interval = interval,
                  !.due_date = now + timedelta_days(interval),
                  !.ease_factor = c.ease_factor + 15,
                  !.repetitions = c.repetitions + 1]

\* an Easy rule that raises the ease factor before it computes the interval
ReviewEasyEaseFirst(c, config, now) ==
    LET ease == c.ease_factor + 15
        raw == IF c.repetitions = 0 THEN config.easy_interval
               ELSE IntOfProduct(c.interval,
                        <<ease, config.easy_bonus, config.interval_modifier>>)
        interval == Min(raw, config.max_interval)
    IN  [c EXCEPT !.interval = interval,
                  !.due_date = now + timedelta_days(interval),
                  !.ease_factor = ease,
                  !.repetitions = c.repetitions + 1]

\* an Easy rule without the cap at max_interval
ReviewEasyUncapped(c, config, now) ==
    LET interval == IF c.repetitions = 0 THEN config.easy_interval
                    ELSE IntOfProduct(c.interval,
                             <<c.ease_factor, config.easy_bonus,
                               config.interval_modifier>>)
    IN  [c EXCEPT !.interval = interval,
                  !.due_date = now + timedelta_days(interval),
                  !.ease_factor = c.ease_factor + 15,
                  !.repetitions = c.repetitions + 1]

ReviewEasy(c, config, now) ==
    LET raw == IF c.repetitions = 0 THEN config.easy_interval
               ELSE IntOfProduct(c.interval,
                        <<c.ease_factor, config.easy_bonus, config.interval_modifier>>)
        interval == Min(raw, config.max_interval)
    IN  [c EXCEPT !.interval = interval,
                  !.due_date = now + timedelta_days(interval),
                  !.ease_factor = c.ease_factor + 15,
                  !.repetitions = c.repetitions + 1]

\* a copy that took the due_date of the argument as well
CopyWithDueDate(c, now) == c

(* The argument is copied first, without its due_date: the copy's due_date *)
(* is datetime.now().                                                      *)
Copy(c, now) ==
    AnkiCard(c.ease_factor, c.interval, None, c.step, c.is_learning,
             c.repetitions, now)

\* A rating none of the branches tests for returns the copy as it is.
calculate_next_review(c, rating, config, now) ==
    LET new_card == Copy(c, now)
    IN  IF new_card.is_learning
        THEN CASE rating = Again -> LearningAgain(new_card, config, now)
               [] rating = Hard  -> LearningHard(new_card, config, now)
               [] rating = Good  -> LearningGood(new_card, config, now)
               [] rating = Easy  -> LearningEasy(new_card, config, now)
               [] OTHER          -> new_card
        ELSE CASE rating = Again -> ReviewAgain(new_card, config, now)
               [] rating = Hard  -> ReviewHard(new_card, config, now)
               [] rating = Good  -> ReviewGood(new_card, config, now)
               [] rating = Easy  -> ReviewEasy(new_card, config, now)
               [] OTHER          -> new_card

\* new_card = card: the branches would assign to the object passed
card_after_aliased(c, rating, config, now) == calculate_next_review(c, rating, config, now)

(* new_card = AnkiCard(...) is a new object and every branch assigns to    *)
(* new_card: the object passed as card has, after the call, the fields it  *)
(* had before.                                                             *)
card_after(c, rating, config, now) == c

\* config is read by config[...] and never assigned to
config_after(c, rating, config, now) == config

----------------------------------------------------------------------------
(* One card rated again and again, as the demo session of the module does:  *)
(* card = calculate_next_review(card, rating).                             *)

Tick ==
    /\ clock < MaxClock
    /\ clock' = clock + 1
    /\ UNCHANGED <<moreVars, schedVars, fnVars, dbVars, selVars, voteVars>>

Review(rating) ==
    /\ reviews < MaxReviews
    /\ card' = calculate_next_review(card, rating, DEFAULT_CONFIG, clock)
    /\ reviews' = reviews + 1

Rate(rating) ==
    /\ Review(rating)
    /\ UNCHANGED <<moreVars, clock, hist, fnVars, dbVars, selVars, voteVars>>

\* no card is being rated
SchedIdle ==
    /\ card = NewCard(0)
    /\ reviews = 0
    /\ hist = <<>>

\* calculate_next_review is not being called on its own
FnIdle ==
    /\ arg_card = NewCard(0)
    /\ arg_rating = Good
    /\ arg_config = DEFAULT_CONFIG
    /\ ret = <<>>

\* the database as init_database leaves it, and no card drawn
DbEmpty ==
    /\ flashcards = {}
    /\ user_progress = {}

SelIdle == pioche = <<>>

Users == {1}

\* the server threads that serve requests at the same time
Threads == {1, 2}

\* a thread that is serving no request
Idle == [pc |-> "idle"]

\* no streak yet, no activity recorded, no request received
VoteIdle ==
    /\ users = [u \in Users |-> [streak_count |-> 0, last_streak_date |-> None]]
    /\ daily_activity = {}
    /\ req = [t \in Threads |-> Idle]
    /\ served = <<>>

\* no deck, and no call made
TableIdle ==
    /\ decks = {}
    /\ deck_cards = {}
    /\ sqlite_sequence = [decks |-> 0, flashcards |-> 0]
    /\ calls = <<>>

StatIdle == counts = <<>>

\* no with-statement run
WithIdle ==
    /\ program = [contexts |-> <<>>, body_raises |-> FALSE]
    /\ frames = <<>>
    /\ order = <<>>
    /\ exited = <<>>
    /\ raising = ""
    /\ phase = "done"

MoreIdle ==
    /\ TableIdle
    /\ StatIdle
    /\ WithIdle

Init ==
    /\ clock = 0
    /\ SchedIdle
    /\ FnIdle
    /\ DbEmpty
    /\ SelIdle
    /\ VoteIdle
    /\ MoreIdle

Next ==
    \/ Tick
    \/ \E rating \in Ratings : Rate(rating)

Spec == Init /\ [][Next]_vars

----------------------------------------------------------------------------
(* The same card with its session recorded: every session of at most       *)
(* SessionLen ratings.                                                     *)

Session(rating) ==
    /\ Len(hist) < SessionLen
    /\ Review(rating)
    /\ hist' = Append(hist, rating)
    /\ UNCHANGED <<moreVars, clock, fnVars, dbVars, selVars, voteVars>>

SessionNext ==
    \/ Tick
    \/ \E rating \in Ratings : Session(rating)

SessionSpec == Init /\ [][SessionNext]_vars

----------------------------------------------------------------------------
(* calculate_next_review as a function: called on a card, a rating and a   *)
(* configuration drawn from the sets below, up to MaxCalls times, while the *)
(* clock ticks.  The stored states come from the scheduler, from the       *)
(* migrations and from the seeding scripts, so every combination of fields *)
(* is passed.                                                              *)

\* a configuration other than the default one
TUNED_CONFIG ==
    [ learning_steps      |-> <<2, 5, 15>>,
      graduating_interval |-> 2,
      easy_interval       |-> 5,
      starting_ease       |-> 250,
      easy_bonus          |-> 150,
      interval_modifier   |-> 110,
      max_interval        |-> 365,
      min_ease            |-> 150 ]

ConfigInputs == {DEFAULT_CONFIG, TUNED_CONFIG}

\* what int(request.args.get('rating')) can be, beyond the four ratings
InvalidRatings == {-1, 4}

RatingInputs == Ratings \cup InvalidRatings

EaseInputs == {130, 140, 145, 150, 165, 250, 355}

IntervalInputs == (0 .. MaxInterval) \cup {100, 331, 14600, 30417, 36500}

CardInputs(config) ==
    { [ ease_factor |-> e, interval |-> i, due_date |-> 0, step |-> s,
        is_learning |-> l, repetitions |-> n ] :
        e \in {x \in EaseInputs : x >= config.min_ease},
        i \in IntervalInputs,
        s \in 0 .. Max(Len(config.learning_steps) - 1, 0),
        l \in BOOLEAN,
        n \in 0 .. MaxReps }

FnInit ==
    /\ clock = 0
    /\ SchedIdle
    /\ arg_config \in ConfigInputs
    /\ arg_card \in CardInputs(arg_config)
    /\ arg_rating \in RatingInputs
    /\ ret = <<>>
    /\ DbEmpty
    /\ SelIdle
    /\ VoteIdle
    /\ MoreIdle

FnCall ==
    /\ Len(ret) < MaxCalls
    /\ ret' = Append(ret, [ at    |-> clock,
                            value |-> calculate_next_review(arg_card, arg_rating,
                                                            arg_config, clock) ])
    /\ arg_card' = card_after(arg_card, arg_rating, arg_config, clock)
    /\ arg_config' = config_after(arg_card, arg_rating, arg_config, clock)
    /\ UNCHANGED <<moreVars, clock, schedVars, arg_rating, dbVars, selVars, voteVars>>

FnNext ==
    \/ Tick
    \/ FnCall

FnSpec == FnInit /\ [][FnNext]_vars

----------------------------------------------------------------------------
(* calculate_next_review under a configuration without learning steps.     *)

NO_STEPS_CONFIG == [DEFAULT_CONFIG EXCEPT !.learning_steps = <<>>]

NoStepsInit ==
    /\ clock = 0
    /\ SchedIdle
    /\ arg_config = NO_STEPS_CONFIG
    /\ arg_card \in CardInputs(arg_config)
    /\ arg_rating \in RatingInputs
    /\ ret = <<>>
    /\ DbEmpty
    /\ SelIdle
    /\ VoteIdle
    /\ MoreIdle

NoStepsNext ==
    \/ Tick
    \/ FnCall

NoStepsSpec == NoStepsInit /\ [][NoStepsNext]_vars

----------------------------------------------------------------------------
(* The progress store and the selector piocher_carte.                      *)

\* up.due_date <= datetime('now'), as SQLite evaluates it: a comparison of
\* two strings.  due_date was written by isoformat(), 'YYYY-MM-DDTHH:MM:SS',
\* and datetime('now') is 'YYYY-MM-DD HH:MM:SS'; 'T' sorts after ' ', so the
\* comparison holds exactly when due_date falls on an earlier day than now.
\* (The server's local time is taken to be UTC.)
SqlDue(due_date, now) == (due_date \div 1440) < (now \div 1440)

\* the CASE expression of the ORDER BY clause
SqlCase(due_date, now) ==
    IF due_date = None THEN 0
    ELSE IF SqlDue(due_date, now) THEN 1
    ELSE 2

\* flashcards f LEFT JOIN user_progress up ON f.id = up.flashcard_id AND
\* up.user_id = ?: one row per matching progress row, and a row of NULLs for
\* a flashcard with none
JoinedRows(user_id) ==
    UNION { LET matching == { up \in user_progress :
                                 up.flashcard_id = f /\ up.user_id = user_id }
            IN  IF matching = {}
                THEN { [ id |-> f, ease_factor |-> None, interval |-> None,
                         due_date |-> None, step |-> None, is_learning |-> None,
                         repetitions |-> None ] }
                ELSE { [ id |-> f, ease_factor |-> up.ease_factor,
                         interval |-> up.interval, due_date |-> up.due_date,
                         step |-> up.step, is_learning |-> up.is_learning,
                         repetitions |-> up.repetitions ] : up \in matching }
          : f \in flashcards }

\* ORDER BY CASE ..., up.due_date (NULL sorts first)
OrderedBefore(a, b, now) ==
    \/ SqlCase(a.due_date, now) < SqlCase(b.due_date, now)
    \/ /\ SqlCase(a.due_date, now) = SqlCase(b.due_date, now)
       /\ a.due_date <= b.due_date

\* cursor.fetchall(): the joined rows in an order the ORDER BY clause
\* allows; rows it does not tell apart come in any order
get_all_user_progress(user_id, now) ==
    LET rows == JoinedRows(user_id)
        n == Cardinality(rows)
    IN  { s \in [1 .. n -> rows] :
            /\ \A i \in 1 .. n, j \in 1 .. n : i # j => s[i] # s[j]
            /\ \A i \in 1 .. n, j \in 1 .. n :
                   i < j => OrderedBefore(s[i], s[j], now) }

\* piocher_carte returns None
NoCard == [id |-> None]

\* a sort by increasing delay
RECURSIVE SortForward(_)
SortForward(entries) ==
    IF entries = <<>> THEN <<>>
    ELSE LET x == Head(entries)
             rest == SortForward(Tail(entries))
             smaller == SelectSeq(rest, LAMBDA e : e.delay < x.delay)
             others == SelectSeq(rest, LAMBDA e : e.delay >= x.delay)
         IN  smaller \o <<x>> \o others

\* list.sort(key=lambda x: x[1], reverse=True): by decreasing delay, entries
\* of equal delay keeping their order
RECURSIVE SortReverse(_)
SortReverse(entries) ==
    IF entries = <<>> THEN <<>>
    ELSE LET x == Head(entries)
             rest == SortReverse(Tail(entries))
             larger == SelectSeq(rest, LAMBDA e : e.delay > x.delay)
             others == SelectSeq(rest, LAMBDA e : e.delay <= x.delay)
         IN  larger \o <<x>> \o others

\* a first loop that leaves the new cards out
DueOnly(cartes_progress, now) ==
    LET kept == SelectSeq(cartes_progress,
                          LAMBDA c : c.due_date # None /\ c.due_date <= now)
    IN  [ i \in 1 .. Len(kept) |->
            [ carte |-> kept[i], delay |-> now - kept[i].due_date ] ]

\* the first loop: new cards with delay 0, due cards with their lateness
\* (the code counts it in hours, here in minutes)
DueOrNew(cartes_progress, now) ==
    LET kept == SelectSeq(cartes_progress,
                          LAMBDA c : c.due_date = None \/ c.due_date <= now)
    IN  [ i \in 1 .. Len(kept) |->
            [ carte |-> kept[i],
              delay |-> IF kept[i].due_date = None THEN 0
                        ELSE now - kept[i].due_date ] ]

\* a second loop that gives the cards the time left as their delay
UpcomingLatestFirst(cartes_progress, now) ==
    LET kept == SelectSeq(cartes_progress, LAMBDA c : c.due_date # None)
    IN  [ i \in 1 .. Len(kept) |->
            [ carte |-> kept[i], delay |-> kept[i].due_date - now ] ]

\* the second loop: the cards with progress, with a negative delay
Upcoming(cartes_progress, now) ==
    LET kept == SelectSeq(cartes_progress, LAMBDA c : c.due_date # None)
    IN  [ i \in 1 .. Len(kept) |->
            [ carte |-> kept[i], delay |-> 0 - (kept[i].due_date - now) ] ]

\* piocher_carte, from the rows get_all_user_progress returned
piocher_carte(cartes_progress, now) ==
    IF cartes_progress = <<>> THEN NoCard
    ELSE LET first == DueOrNew(cartes_progress, now)
             cartes_a_reviser == IF first = <<>>
                                 THEN Upcoming(cartes_progress, now)
                                 ELSE first
         IN  IF cartes_a_reviser = <<>> THEN NoCard
             ELSE SortReverse(cartes_a_reviser)[1].carte

----------------------------------------------------------------------------
(* piocher_carte on a deck snapshot: any deck of at most NumCards cards,   *)
(* each new or with a stored due date, at any time.                        *)

Times == { 1440 * d + m : d \in 0 .. MaxDay, m \in 0 .. MaxMinute }

\* a stored row: the card was rated Good once and is due at due_date
LearningRow(user_id, f, due_date) ==
    [ user_id |-> user_id, flashcard_id |-> f, ease_factor |-> 250,
      interval |-> 0, due_date |-> due_date, step |-> 1, is_learning |-> 1,
      repetitions |-> 0 ]

\* the tables in which each flashcard of cards is new or has one row
Snapshots(cards) ==
    { { LearningRow(1, f, due[f]) : f \in { g \in cards : due[g] # None } } :
        due \in [cards -> Times \cup {None}] }

SelInit ==
    /\ clock \in Times
    /\ SchedIdle
    /\ FnIdle
    /\ flashcards \in SUBSET (1 .. NumCards)
    /\ user_progress \in Snapshots(flashcards)
    /\ pioche = <<>>
    /\ VoteIdle
    /\ MoreIdle

Piocher(user_id) ==
    /\ pioche = <<>>
    /\ \E cartes_progress \in get_all_user_progress(user_id, clock) :
           pioche' = <<[ now |-> clock,
                         carte |-> piocher_carte(cartes_progress, clock) ]>>
    /\ UNCHANGED <<moreVars, clock, schedVars, fnVars, dbVars, voteVars>>

SelNext == \E user_id \in Users : Piocher(user_id)

SelSpec == SelInit /\ [][SelNext]_vars

----------------------------------------------------------------------------
(* get_cards_to_review of anki_algorithm.py, given the rows of the same    *)
(* snapshot as (flashcard, progress) pairs, progress being None for a card *)
(* without a row.                                                          *)

\* the loop: a new card with priority 0, a card due with the whole days it
\* is late, (current_date - due_date).days
ToReview(cards_with_progress, current_date) ==
    LET kept == SelectSeq(cards_with_progress,
                          LAMBDA c : c.due_date = None \/ c.due_date <= current_date)
    IN  [ i \in 1 .. Len(kept) |->
            [ carte |-> kept[i],
              seen  |-> IF kept[i].due_date = None THEN 0 ELSE 1,
              delay |-> IF kept[i].due_date = None THEN 0
                        ELSE (current_date - kept[i].due_date) \div 1440 ] ]

\* the key (x[1] is not None, -x[2]) of a comes before the key of b
KeyBefore(a, b) ==
    \/ a.seen < b.seen
    \/ a.seen = b.seen /\ a.delay > b.delay

\* cards_to_review.sort(key=...): entries of equal key keep their order
RECURSIVE SortByKey(_)
SortByKey(entries) ==
    IF entries = <<>> THEN <<>>
    ELSE LET x == Head(entries)
             rest == SortByKey(Tail(entries))
             before == SelectSeq(rest, LAMBDA e : KeyBefore(e, x))
             others == SelectSeq(rest, LAMBDA e : ~KeyBefore(e, x))
         IN  before \o <<x>> \o others

\* the flashcards to review, first the one to show
get_cards_to_review(cards_with_progress, current_date) ==
    LET sorted == SortByKey(ToReview(cards_with_progress, current_date))
    IN  [ i \in 1 .. Len(sorted) |-> sorted[i].carte.id ]

\* both functions are given the rows of one snapshot at one time
Comparer(user_id) ==
    /\ pioche = <<>>
    /\ \E cartes_progress \in get_all_user_progress(user_id, clock) :
           pioche' = <<[ now |-> clock,
                         carte |-> piocher_carte(cartes_progress, clock),
                         cards_to_review |->
                             get_cards_to_review(cartes_progress, clock) ]>>
    /\ UNCHANGED <<moreVars, clock, schedVars, fnVars, dbVars, voteVars>>

CompareNext == \E user_id \in Users : Comparer(user_id)

CompareSpec == SelInit /\ [][CompareNext]_vars

----------------------------------------------------------------------------
(* vote_card.  Each database function opens its own connection and commits *)
(* when it returns, so a request is a sequence of separate transactions;   *)
(* the server runs requests in threads, and the steps of different         *)
(* requests interleave.  A local variable of a request is kept until its   *)
(* last use.                                                               *)

\* cursor.fetchone() returns None
NoRow == [flashcard_id |-> None]

\* SELECT * FROM user_progress WHERE user_id = ? AND flashcard_id = ?
get_user_progress(user_id, flashcard_id) ==
    LET found == { up \in user_progress :
                     up.user_id = user_id /\ up.flashcard_id = flashcard_id }
    IN  IF found = {} THEN {NoRow} ELSE found

\* an update_progress that inserts a row whatever the table holds
update_progress_insert(user_id, flashcard_id, ease_factor, interval, due_date, step, is_learning, repetitions) ==
    user_progress \cup {[ user_id |-> user_id, flashcard_id |-> flashcard_id,
                          ease_factor |-> ease_factor, interval |-> interval,
                          due_date |-> due_date, step |-> step,
                          is_learning |-> is_learning, repetitions |-> repetitions ]}

\* an update_progress that writes the row of every user of the flashcard
update_progress_of_all(user_id, flashcard_id, ease_factor, interval, due_date, step, is_learning, repetitions) ==
    { IF up.flashcard_id = flashcard_id
      THEN [up EXCEPT !.ease_factor = ease_factor, !.interval = interval,
                      !.due_date = due_date, !.step = step,
                      !.is_learning = is_learning, !.repetitions = repetitions]
      ELSE up : up \in user_progress }
    \cup {[ user_id |-> user_id, flashcard_id |-> flashcard_id,
            ease_factor |-> ease_factor, interval |-> interval,
            due_date |-> due_date, step |-> step,
            is_learning |-> is_learning, repetitions |-> repetitions ]}

\* INSERT ... ON CONFLICT(user_id, flashcard_id) DO UPDATE SET ...: the table
\* afterwards
update_progress(user_id, flashcard_id, ease_factor, interval, due_date, step, is_learning, repetitions) ==
    LET conflicts(up) == up.user_id = user_id /\ up.flashcard_id = flashcard_id
        values == [ user_id |-> user_id, flashcard_id |-> flashcard_id,
                    ease_factor |-> ease_factor, interval |-> interval,
                    due_date |-> due_date, step |-> step,
                    is_learning |-> is_learning, repetitions |-> repetitions ]
    IN  IF \E up \in user_progress : conflicts(up)
        THEN { IF conflicts(up)
               THEN [up EXCEPT !.ease_factor = ease_factor, !.interval = interval,
                               !.due_date = due_date, !.step = step,
                               !.is_learning = is_learning,
                               !.repetitions = repetitions]
               ELSE up : up \in user_progress }
        ELSE user_progress \cup {values}

\* the flashcards of the decks of a user: the one deck belongs to the one user
OwnedFlashcards(user_id) == flashcards

\* get_user_flashcard_counts
get_user_flashcard_counts(user_id, now) ==
    LET rows(f) == { up \in user_progress :
                       up.flashcard_id = f /\ up.user_id = user_id }
        owned == OwnedFlashcards(user_id)
    IN  [ new     |-> Cardinality({ f \in owned : rows(f) = {} }),
          relearn |-> Cardinality({ f \in owned : \E up \in rows(f) :
                          up.is_learning = 1 /\ SqlDue(up.due_date, now) }),
          review  |-> Cardinality({ f \in owned : \E up \in rows(f) :
                          up.is_learning = 0 /\ SqlDue(up.due_date, now) }) ]

\* the flashcards of a deck: there is the one deck
DeckFlashcards(deck_id) == flashcards

\* get_deck_statistics
get_deck_statistics(user_id, deck_id, now) ==
    LET rows(f) == { up \in user_progress :
                       up.flashcard_id = f /\ up.user_id = user_id }
        in_deck == DeckFlashcards(deck_id)
    IN  [ new     |-> Cardinality({ f \in in_deck : rows(f) = {} }),
          relearn |-> Cardinality({ f \in in_deck : \E up \in rows(f) :
                          up.is_learning = 1 /\ SqlDue(up.due_date, now) }),
          review  |-> Cardinality({ f \in in_deck : \E up \in rows(f) :
                          up.is_learning = 0 /\ SqlDue(up.due_date, now) }) ]

\* date.today()
Today(now) == now \div 1440

\* update_streak would execute an UPDATE
StreakWrites(user_id, now) ==
    \/ users[user_id].last_streak_date = None
    \/ users[user_id].last_streak_date # Today(now)

(* update_daily_activity.  It upserts the day's row on its connection and, *)
(* when all_completed, calls update_streak before it commits.              *)
(* update_streak opens a second connection; its UPDATE needs the write lock *)
(* the first connection holds, waits for the busy timeout and raises       *)
(* sqlite3.OperationalError (database is locked); both connections roll    *)
(* back.  The value is the table afterwards, or Locked.                    *)
Locked == {[raised |-> "OperationalError"]}

update_daily_activity(user_id, cards_reviewed, all_completed, now) ==
    LET today == Today(now)
        cards_due == Cardinality({ f \in OwnedFlashcards(user_id) :
                        \/ \A up \in user_progress :
                              ~(up.flashcard_id = f /\ up.user_id = user_id)
                        \/ \E up \in user_progress :
                              /\ up.flashcard_id = f /\ up.user_id = user_id
                              /\ SqlDue(up.due_date, now) })
        conflicts(row) == row.user_id = user_id /\ row.date = today
        upserted ==
            IF \E row \in daily_activity : conflicts(row)
            THEN { IF conflicts(row)
                   THEN [row EXCEPT
                           !.cards_reviewed = row.cards_reviewed + cards_reviewed,
                           !.cards_due_completed = cards_due,
                           !.all_cards_completed = all_completed]
                   ELSE row : row \in daily_activity }
            ELSE daily_activity \cup
                   {[ user_id |-> user_id, date |-> today,
                      cards_reviewed |-> cards_reviewed,
                      cards_due_completed |-> cards_due,
                      all_cards_completed |-> all_completed ]}
    IN  IF all_completed /\ StreakWrites(user_id, now) THEN Locked ELSE upserted

\* a request as it arrives
Request(user_id, flashcard_id, rating) ==
    [ pc |-> "start", user_id |-> user_id, flashcard_id |-> flashcard_id,
      rating |-> rating, progress |-> NoRow, new_card |-> NewCard(0),
      all_completed |-> FALSE, carte |-> NoCard ]

\* a thread that is free takes a request: int(flashcard_id), int(rating)
VoteStart(p, user_id, flashcard_id, rating) ==
    /\ req[p].pc \in {"idle", "done", "error"}
    /\ Len(served) < NumRequests
    /\ req' = [req EXCEPT ![p] = Request(user_id, flashcard_id, rating)]
    /\ served' = Append(served, [ user_id |-> user_id, flashcard_id |-> flashcard_id,
                                  rating |-> rating ])
    /\ UNCHANGED <<moreVars, clock, schedVars, fnVars, dbVars, selVars, users, daily_activity>>

\* progress = get_user_progress(user_id, flashcard_id)
VoteRead(p) ==
    /\ req[p].pc = "start"
    /\ \E row \in get_user_progress(req[p].user_id, req[p].flashcard_id) :
           req' = [req EXCEPT ![p].pc = "read", ![p].progress = row]
    /\ UNCHANGED <<moreVars, clock, schedVars, fnVars, dbVars, selVars, users, daily_activity,
                   served>>

\* card = AnkiCard(...) from the row read, or AnkiCard();
\* new_card = calculate_next_review(card, rating)
VoteCompute(p) ==
    /\ req[p].pc = "read"
    /\ LET progress == req[p].progress
           old == IF progress # NoRow
                  THEN AnkiCard(progress.ease_factor, progress.interval,
                                progress.due_date, progress.step,
                                progress.is_learning # 0, progress.repetitions, clock)
                  ELSE NewCard(clock)
       IN  req' = [req EXCEPT
                     ![p].pc = "computed",
                     ![p].progress = NoRow,
                     ![p].new_card = calculate_next_review(old, req[p].rating,
                                                           DEFAULT_CONFIG, clock)]
    /\ UNCHANGED <<moreVars, clock, schedVars, fnVars, dbVars, selVars, users, daily_activity,
                   served>>

\* update_progress(user_id, flashcard_id, new_card...)
VoteWrite(p) ==
    /\ req[p].pc = "computed"
    /\ LET new_card == req[p].new_card
       IN  user_progress' =
               update_progress(req[p].user_id, req[p].flashcard_id,
                               new_card.ease_factor, new_card.interval,
                               new_card.due_date, new_card.step,
                               IF new_card.is_learning THEN 1 ELSE 0,
                               new_card.repetitions)
    /\ req' = [req EXCEPT ![p].pc = "written"]
    /\ UNCHANGED <<moreVars, clock, schedVars, fnVars, flashcards, selVars, users, daily_activity,
                   served>>

\* stats = get_user_flashcard_counts(user_id); all_completed = ...
VoteCounts(p) ==
    /\ req[p].pc = "written"
    /\ LET stats == get_user_flashcard_counts(req[p].user_id, clock)
       IN  req' = [req EXCEPT
                     ![p].pc = "counted",
                     ![p].all_completed = (stats.new = 0 /\ stats.relearn = 0
                                           /\ stats.review = 0)]
    /\ UNCHANGED <<moreVars, clock, schedVars, fnVars, dbVars, selVars, users, daily_activity,
                   served>>

\* update_daily_activity(user_id, 1, all_completed); when it raises, the
\* request ends there with an error
VoteActivity(p) ==
    /\ req[p].pc = "counted"
    /\ LET after == update_daily_activity(req[p].user_id, 1,
                                           req[p].all_completed, clock)
       IN  IF after = Locked
           THEN /\ req' = [req EXCEPT ![p].pc = "error", ![p].all_completed = FALSE,
                                      ![p].new_card = NewCard(0)]
                /\ UNCHANGED daily_activity
           ELSE /\ req' = [req EXCEPT ![p].pc = "recorded",
                                      ![p].all_completed = FALSE]
                /\ daily_activity' = after
    /\ UNCHANGED <<moreVars, clock, schedVars, fnVars, dbVars, selVars, users, served>>

\* nouvelle_carte = piocher_carte(deck_name, user_id)
VotePick(p) ==
    /\ req[p].pc = "recorded"
    /\ \E cartes_progress \in get_all_user_progress(req[p].user_id, clock) :
           req' = [req EXCEPT
                     ![p].pc = "done",
                     ![p].new_card = NewCard(0),
                     ![p].carte = piocher_carte(cartes_progress, clock)]
    /\ UNCHANGED <<moreVars, clock, schedVars, fnVars, dbVars, selVars, users, daily_activity,
                   served>>

\* the ratings the requests carry
VoteRatings == Ratings \cup {4}

\* a deck of DeckSize flashcards, nothing learnt yet
VoteInit ==
    /\ clock = 0
    /\ SchedIdle
    /\ FnIdle
    /\ SelIdle
    /\ flashcards = 1 .. DeckSize
    /\ user_progress = {}
    /\ VoteIdle
    /\ MoreIdle

VoteNext ==
    \/ Tick
    \/ \E p \in Threads, user_id \in Users, flashcard_id \in flashcards,
          rating \in VoteRatings : VoteStart(p, user_id, flashcard_id, rating)
    \/ \E p \in Threads : VoteRead(p)
    \/ \E p \in Threads : VoteCompute(p)
    \/ \E p \in Threads : VoteWrite(p)
    \/ \E p \in Threads : VoteCounts(p)
    \/ \E p \in Threads : VoteActivity(p)
    \/ \E p \in Threads : VotePick(p)

VoteSpec == VoteInit /\ [][VoteNext]_vars

----------------------------------------------------------------------------
(* AnkiCard.to_dict and AnkiCard.from_dict.  A datetime is a number of     *)
(* minutes; its isoformat() text is the date, the hour and the minute      *)
(* written apart, and fromisoformat reads the three back.                  *)

\* date().isoformat(): the text of the day alone
isoformat_date(t) == [ date |-> t \div 1440, hour |-> 0, minute |-> 0 ]

isoformat(t) ==
    [ date |-> t \div 1440, hour |-> (t % 1440) \div 60, minute |-> t % 60 ]

fromisoformat(text) == 1440 * text.date + 60 * text.hour + text.minute

\* None where a text is expected
NoText == [ date |-> None, hour |-> None, minute |-> None ]

to_dict(c) ==
    [ ease_factor |-> c.ease_factor,
      interval    |-> c.interval,
      due_date    |-> IF c.due_date # None THEN isoformat(c.due_date) ELSE NoText,
      step        |-> c.step,
      is_learning |-> IF c.is_learning THEN 1 ELSE 0,
      repetitions |-> c.repetitions ]

\* cls(...): the constructor runs again on the decoded values
from_dict(data, now) ==
    AnkiCard(data.ease_factor, data.interval,
             IF data.due_date # NoText THEN fromisoformat(data.due_date) ELSE None,
             data.step, data.is_learning # 0, data.repetitions, now)

\* the due dates given to the constructor: none, midnight, and times of day
DueDateInputs == {None, 0, 61, 1439, 1440, 1501, 2879}

\* the cards the constructor makes at time now
ConstructedCards(now) ==
    { AnkiCard(e, i, d, s, l, n, now) :
        e \in {None, 0, 130, 250, 355}, i \in {0, 1, 100}, d \in DueDateInputs,
        s \in 0 .. 1, l \in BOOLEAN, n \in 0 .. MaxReps }

DictInit ==
    /\ clock \in 0 .. MaxClock
    /\ SchedIdle
    /\ arg_card \in ConstructedCards(clock)
    /\ arg_rating = Good
    /\ arg_config = DEFAULT_CONFIG
    /\ ret = <<>>
    /\ DbEmpty
    /\ SelIdle
    /\ VoteIdle
    /\ MoreIdle

\* data = card.to_dict()
ToDict ==
    /\ ret = <<>>
    /\ ret' = <<to_dict(arg_card)>>
    /\ UNCHANGED <<moreVars, clock, schedVars, arg_card, arg_rating, arg_config,
                   dbVars, selVars, voteVars>>

\* AnkiCard.from_dict(data)
FromDict ==
    /\ Len(ret) = 1
    /\ ret' = Append(ret, from_dict(ret[1], clock))
    /\ UNCHANGED <<moreVars, clock, schedVars, arg_card, arg_rating, arg_config,
                   dbVars, selVars, voteVars>>

DictNext ==
    \/ Tick
    \/ ToDict
    \/ FromDict

DictSpec == DictInit /\ [][DictNext]_vars

----------------------------------------------------------------------------
(* The tables decks, flashcards and user_progress under create_deck,       *)
(* create_flashcard, update_progress and delete_deck, each one transaction *)
(* on a connection with PRAGMA foreign_keys = ON.  The database starts     *)
(* with the users of TableUsers and no deck.                               *)

TableUsers == {1, 2}

\* what a call returned, or the exception it raised
Returned(value) == [returned |-> value, raised |-> ""]
IntegrityError == [returned |-> None, raised |-> "IntegrityError"]

\* FOREIGN KEY (user_id) REFERENCES users(id): NULL refers to nothing
UserExists(user_id) == user_id = None \/ user_id \in DOMAIN users

\* FOREIGN KEY (deck_id) REFERENCES decks(id)
DeckExists(deck_id) == \E d \in decks : d.id = deck_id

\* the id AUTOINCREMENT gives the next row of a table
NextId(table) == sqlite_sequence[table] + 1

(* create_deck.  decks has no UNIQUE constraint on name: the INSERT fails  *)
(* only on the foreign key, and then no deck of that user is found and the *)
(* INSERT of the except branch fails the same way.  The value is the       *)
(* table afterwards and what the call returns.                             *)
create_deck(name, user_id) ==
    LET found == IF user_id # None
                 THEN { d \in decks : d.name = name /\ d.user_id = user_id }
                 ELSE { d \in decks : d.name = name }
    IN  IF UserExists(user_id)
        THEN [ decks |-> decks \cup {[ id |-> NextId("decks"), name |-> name,
                                       user_id |-> user_id ]},
               result |-> Returned(NextId("decks")) ]
        ELSE IF found # {}
        THEN [ decks |-> decks,
               result |-> Returned(CHOOSE id \in { d.id : d \in found } : TRUE) ]
        ELSE [ decks |-> decks, result |-> IntegrityError ]

CreateDeck(name, user_id) ==
    /\ Len(calls) < MaxStatements
    /\ LET after == create_deck(name, user_id)
       IN  /\ decks' = after.decks
           /\ sqlite_sequence' =
                 IF after.decks # decks
                 THEN [sqlite_sequence EXCEPT !.decks = NextId("decks")]
                 ELSE sqlite_sequence
           /\ calls' = Append(calls, [ op |-> "create_deck", name |-> name,
                                       user_id |-> user_id,
                                       result |-> after.result ])
    /\ UNCHANGED <<withVars, statVars, clock, schedVars, fnVars, dbVars, selVars, voteVars,
                   deck_cards>>

(* create_flashcard.  The INSERT fails on UNIQUE(deck_id, question), and   *)
(* the except branch returns the id of the card there is, or on the        *)
(* foreign key, and the except branch finds nothing and returns None.      *)
create_flashcard(deck_id, question) ==
    LET found == { f \in deck_cards : f.deck_id = deck_id /\ f.question = question }
    IN  IF DeckExists(deck_id) /\ found = {}
        THEN [ deck_cards |-> deck_cards \cup
                                {[ id |-> NextId("flashcards"), deck_id |-> deck_id,
                                   question |-> question ]},
               result |-> Returned(NextId("flashcards")) ]
        ELSE IF found # {}
        THEN [ deck_cards |-> deck_cards,
               result |-> Returned(CHOOSE id \in { f.id : f \in found } : TRUE) ]
        ELSE [ deck_cards |-> deck_cards, result |-> Returned(None) ]

CreateFlashcard(deck_id, question) ==
    /\ Len(calls) < MaxStatements
    /\ LET after == create_flashcard(deck_id, question)
       IN  /\ deck_cards' = after.deck_cards
           /\ flashcards' = { f.id : f \in after.deck_cards }
           /\ sqlite_sequence' =
                 IF after.deck_cards # deck_cards
                 THEN [sqlite_sequence EXCEPT !.flashcards = NextId("flashcards")]
                 ELSE sqlite_sequence
           /\ calls' = Append(calls, [ op |-> "create_flashcard",
                                       deck_id |-> deck_id, question |-> question,
                                       result |-> after.result ])
    /\ UNCHANGED <<withVars, statVars, clock, schedVars, fnVars, selVars, voteVars, decks,
                   user_progress>>

\* the flashcards ON DELETE CASCADE removes with a deck
CascadedCards(deck_id) == { f \in deck_cards : f.deck_id = deck_id }

\* a cascade that stops at the flashcards
NoCascadedProgress(gone) == {}

\* the progress rows ON DELETE CASCADE removes with those flashcards
CascadedProgress(gone) ==
    { up \in user_progress : \E f \in gone : up.flashcard_id = f.id }

\* DELETE FROM decks WHERE id = ?
delete_deck(deck_id) ==
    LET gone == CascadedCards(deck_id)
    IN  [ decks |-> { d \in decks : d.id # deck_id },
          deck_cards |-> deck_cards \ gone,
          user_progress |-> user_progress \ CascadedProgress(gone) ]

DeleteDeck(deck_id) ==
    /\ Len(calls) < MaxStatements
    /\ LET after == delete_deck(deck_id)
       IN  /\ decks' = after.decks
           /\ deck_cards' = after.deck_cards
           /\ flashcards' = { f.id : f \in after.deck_cards }
           /\ user_progress' = after.user_progress
    /\ calls' = Append(calls, [ op |-> "delete_deck", deck_id |-> deck_id,
                                result |-> Returned(None) ])
    /\ UNCHANGED <<withVars, statVars, clock, schedVars, fnVars, selVars, voteVars,
                   sqlite_sequence>>

\* the values update_progress is called with: a new card rated Again, Easy
ProgressInputs ==
    { calculate_next_review(NewCard(0), rating, DEFAULT_CONFIG, 0) :
        rating \in {Again, Easy} }

\* update_progress on the tables: the foreign keys of user_progress hold, or
\* the INSERT raises and the transaction is rolled back
UpdateProgress(user_id, flashcard_id, c) ==
    /\ Len(calls) < MaxStatements
    /\ LET refs == user_id \in DOMAIN users /\ flashcard_id \in flashcards
       IN  /\ user_progress' =
                 IF refs
                 THEN update_progress(user_id, flashcard_id, c.ease_factor,
                                      c.interval, c.due_date, c.step,
                                      IF c.is_learning THEN 1 ELSE 0, c.repetitions)
                 ELSE user_progress
           /\ calls' = Append(calls, [ op |-> "update_progress",
                                       user_id |-> user_id,
                                       flashcard_id |-> flashcard_id, card |-> c,
                                       result |-> IF refs THEN Returned(None)
                                                  ELSE IntegrityError ])
    /\ UNCHANGED <<withVars, statVars, clock, schedVars, fnVars, selVars, voteVars, decks,
                   deck_cards, sqlite_sequence, flashcards>>

\* the arguments of the calls
DeckNames == {"Maths", "Physique"}
OwnerInputs == {None, 1, 3}
DeckIdInputs == {1, 2}
QuestionInputs == {"Q1?", "Q2?"}
FlashcardIdInputs == {1, 2}

TableInit ==
    /\ clock = 0
    /\ SchedIdle
    /\ FnIdle
    /\ DbEmpty
    /\ SelIdle
    /\ users = [u \in TableUsers |-> [streak_count |-> 0, last_streak_date |-> None]]
    /\ daily_activity = {}
    /\ req = [t \in Threads |-> Idle]
    /\ served = <<>>
    /\ MoreIdle

TableNext ==
    \/ \E name \in DeckNames, user_id \in OwnerInputs : CreateDeck(name, user_id)
    \/ \E deck_id \in DeckIdInputs, question \in QuestionInputs :
          CreateFlashcard(deck_id, question)
    \/ \E user_id \in TableUsers, flashcard_id \in FlashcardIdInputs,
          c \in ProgressInputs : UpdateProgress(user_id, flashcard_id, c)
    \/ \E deck_id \in DeckIdInputs : DeleteDeck(deck_id)

TableSpec == TableInit /\ [][TableNext]_vars

----------------------------------------------------------------------------
(* The four decorators of decorators.py under the with statement.  A       *)
(* decorated generator function has one yield and is of one of three       *)
(* shapes:                                                                 *)
(*   "plain"    enter; yield value; exit                                   *)
(*   "finally"  enter; try: yield value  finally: exit                     *)
(*   "except"   enter; try: yield value  except Exception: caught          *)
(*              exit                                                       *)
(* simple_context and with_setup_teardown decorate a plain function, of    *)
(* shape "function", which does enter and returns value.  The context at   *)
(* depth i yields or returns the value i.                                  *)

Generators == {"plain", "finally", "except"}

\* what user code appends to the list it keeps
Event(i, what) == [ctx |-> i, what |-> what]

ValueError == "ValueError"

\* next(generator) on a generator not started: it runs to its yield
start(kind, i) == [events |-> <<Event(i, "enter")>>, result |-> i]

\* next(generator) at the yield: the generator goes on as if nothing had
\* happened, to its end
resume(kind, i) == <<Event(i, "exit")>>

\* generator.throw(exc) at the yield: the exception is raised there
throw(kind, i) ==
    CASE kind = "plain"   -> [events |-> <<>>, raised |-> TRUE]
      [] kind = "finally" -> [events |-> <<Event(i, "exit")>>, raised |-> TRUE]
      [] kind = "except"  -> [events |-> <<Event(i, "caught"), Event(i, "exit")>>,
                              raised |-> FALSE]

\* contextlib's _GeneratorContextManager.__enter__
contextmanager_enter(ctx, i) == start(ctx.kind, i)

\* an __exit__ that returns False on an exception without resuming the generator
contextmanager_exit_unresumed(ctx, i, exc) ==
    IF exc = ""
    THEN [events |-> resume(ctx.kind, i), returned |-> FALSE]
    ELSE [events |-> <<>>, returned |-> FALSE]

\* contextlib's _GeneratorContextManager.__exit__: next(gen) without an
\* exception, gen.throw(exc) with one; True when the generator ended
\* without raising
contextmanager_exit(ctx, i, exc) ==
    IF exc = ""
    THEN [events |-> resume(ctx.kind, i), returned |-> FALSE]
    ELSE [events |-> throw(ctx.kind, i).events,
          returned |-> ~throw(ctx.kind, i).raised]

\* an __enter__ that starts the generator and drops the value it yields
ContextManagerWrapper_enter_unbound(ctx, i) ==
    [events |-> start(ctx.kind, i).events, result |-> None]

\* self.generator = self.func(...); self.result = next(self.generator)
ContextManagerWrapper_enter(ctx, i) == start(ctx.kind, i)

\* an __exit__ that resumes the generator a second time
ContextManagerWrapper_exit_twice(ctx, i, exc) ==
    [events |-> resume(ctx.kind, i) \o resume(ctx.kind, i), returned |-> FALSE]

\* next(self.generator) whatever the exception; return False
ContextManagerWrapper_exit(ctx, i, exc) ==
    [events |-> resume(ctx.kind, i), returned |-> FALSE]

\* self.result = self.func(*args, **kwargs)
SimpleFunctionContextManager_enter(ctx, i) ==
    [events |-> <<Event(i, "enter")>>, result |-> i]

SimpleFunctionContextManager_exit(ctx, i, exc) ==
    [events |-> <<>>, returned |-> FALSE]

\* self.result = self.enter_callback()
CallbackContextManager_enter(ctx, i) ==
    [events |-> <<Event(i, "enter")>>, result |-> i]

\* the teardown, when there is one, is called; what it returns is dropped
CallbackContextManager_exit(ctx, i, exc) ==
    [events |-> IF ctx.teardown THEN <<Event(i, "teardown")>> ELSE <<>>,
     returned |-> FALSE]

\* the __enter__ of the object the decorated function returns
enter(ctx, i) ==
    CASE ctx.decorator = "as_context_manager"  -> contextmanager_enter(ctx, i)
      [] ctx.decorator = "context_manager"     -> ContextManagerWrapper_enter(ctx, i)
      [] ctx.decorator = "simple_context"      -> SimpleFunctionContextManager_enter(ctx, i)
      [] ctx.decorator = "with_setup_teardown" -> CallbackContextManager_enter(ctx, i)

\* its __exit__
exit(ctx, i, exc) ==
    CASE ctx.decorator = "as_context_manager"  -> contextmanager_exit(ctx, i, exc)
      [] ctx.decorator = "context_manager"     -> ContextManagerWrapper_exit(ctx, i, exc)
      [] ctx.decorator = "simple_context"      -> SimpleFunctionContextManager_exit(ctx, i, exc)
      [] ctx.decorator = "with_setup_teardown" -> CallbackContextManager_exit(ctx, i, exc)

\* the decorated functions a with-statement is given
ContextInputs ==
    { [decorator |-> d, kind |-> k, teardown |-> FALSE] :
        d \in {"as_context_manager", "context_manager"}, k \in Generators }
    \cup {[decorator |-> "simple_context", kind |-> "function", teardown |-> FALSE]}
    \cup { [decorator |-> "with_setup_teardown", kind |-> "function", teardown |-> t] :
             t \in BOOLEAN }

WithInit ==
    /\ clock = 0
    /\ SchedIdle
    /\ FnIdle
    /\ DbEmpty
    /\ SelIdle
    /\ VoteIdle
    /\ TableIdle
    /\ StatIdle
    /\ \E n \in 1 .. MaxDepth :
          program \in [contexts : [1 .. n -> ContextInputs], body_raises : BOOLEAN]
    /\ frames = <<>>
    /\ order = <<>>
    /\ exited = <<>>
    /\ raising = ""
    /\ phase = "enter"

\* with f(...) as x: the next context is entered and its value bound
WithEnter ==
    /\ phase = "enter"
    /\ Len(frames) < Len(program.contexts)
    /\ LET i == Len(frames) + 1
           entered == enter(program.contexts[i], i)
       IN  /\ order' = order \o entered.events
           /\ frames' = Append(frames, [ctx |-> i, bound |-> entered.result])
    /\ UNCHANGED <<tableVars, statVars, clock, schedVars, fnVars, dbVars, selVars,
                   voteVars, program, exited, raising, phase>>

\* the innermost body runs, and raises or not
WithBody ==
    /\ phase = "enter"
    /\ Len(frames) = Len(program.contexts)
    /\ order' = Append(order, Event(0, "body"))
    /\ raising' = IF program.body_raises THEN ValueError ELSE ""
    /\ phase' = "exit"
    /\ UNCHANGED <<tableVars, statVars, clock, schedVars, fnVars, dbVars, selVars,
                   voteVars, program, frames, exited>>

\* the innermost context is left: __exit__ receives the exception there is,
\* and the exception goes on unless __exit__ returns True
WithExit ==
    /\ phase = "exit"
    /\ frames # <<>>
    /\ LET top == frames[Len(frames)]
           left == exit(program.contexts[top.ctx], top.ctx, raising)
       IN  /\ order' = order \o left.events
           /\ exited' = Append(exited, [ctx |-> top.ctx, bound |-> top.bound,
                                        exc |-> raising,
                                        returned |-> left.returned])
           /\ raising' = IF left.returned THEN "" ELSE raising
           /\ frames' = SubSeq(frames, 1, Len(frames) - 1)
    /\ UNCHANGED <<tableVars, statVars, clock, schedVars, fnVars, dbVars, selVars,
                   voteVars, program, phase>>

\* control is back in the caller, with the exception if one is left
WithReturn ==
    /\ phase = "exit"
    /\ frames = <<>>
    /\ phase' = "done"
    /\ UNCHANGED <<tableVars, statVars, clock, schedVars, fnVars, dbVars, selVars,
                   voteVars, program, frames, order, exited, raising>>

WithNext ==
    \/ WithEnter
    \/ WithBody
    \/ WithExit
    \/ WithReturn

WithSpec == WithInit /\ [][WithNext]_vars

----------------------------------------------------------------------------
(* The streak of a user over the days: update_streak and get_user_streak   *)
(* called on their own, and update_daily_activity, which calls             *)
(* update_streak inside its transaction.  The user starts as create_user   *)
(* leaves it, without a streak.                                            *)

OperationalError == [returned |-> None, raised |-> "OperationalError"]

\* an update_streak that counts every call, the same day too
update_streak_every_call(user_id, now) ==
    LET today == Today(now)
        current_streak == users[user_id].streak_count
        last_date == users[user_id].last_streak_date
    IN  IF last_date = None
        THEN [ row |-> [streak_count |-> 1, last_streak_date |-> today],
               result |-> Returned(1) ]
        ELSE IF last_date = today - 1 \/ last_date = today
        THEN [ row |-> [streak_count |-> current_streak + 1,
                        last_streak_date |-> today],
               result |-> Returned(current_streak + 1) ]
        ELSE [ row |-> [streak_count |-> 1, last_streak_date |-> today],
               result |-> Returned(1) ]

\* update_streak on its own connection: the row of the user afterwards and
\* the streak returned
update_streak(user_id, now) ==
    LET today == Today(now)
        current_streak == users[user_id].streak_count
        last_date == users[user_id].last_streak_date
    IN  IF last_date = None
        THEN [ row |-> [streak_count |-> 1, last_streak_date |-> today],
               result |-> Returned(1) ]
        ELSE IF last_date = today - 1
        THEN [ row |-> [streak_count |-> current_streak + 1,
                        last_streak_date |-> today],
               result |-> Returned(current_streak + 1) ]
        ELSE IF last_date = today
        THEN [ row |-> users[user_id], result |-> Returned(current_streak) ]
        ELSE [ row |-> [streak_count |-> 1, last_streak_date |-> today],
               result |-> Returned(1) ]

\* get_user_streak: a streak whose last day is before yesterday is set to 0
get_user_streak(user_id, now) ==
    LET today == Today(now)
        streak == users[user_id].streak_count
        last_date == users[user_id].last_streak_date
    IN  IF last_date = None
        THEN [ row |-> users[user_id], result |-> Returned(0) ]
        ELSE IF last_date < today - 1
        THEN [ row |-> [users[user_id] EXCEPT !.streak_count = 0],
               result |-> Returned(0) ]
        ELSE [ row |-> users[user_id], result |-> Returned(streak) ]

\* what a call did: the day, the row of the user before and after, the
\* table daily_activity after, and what the call returned or raised
StreakCall(op, user_id, all_completed, row, activity, result) ==
    [ op |-> op, user_id |-> user_id, all_completed |-> all_completed,
      today |-> Today(clock), before |-> users[user_id], after |-> row,
      activity_before |-> daily_activity, activity |-> activity,
      result |-> result ]

\* the day changes
Midnight ==
    /\ Today(clock) < MaxDay + 2
    /\ clock' = 1440 * (Today(clock) + 1)
    /\ UNCHANGED <<withVars, statVars, schedVars, fnVars, dbVars, selVars, voteVars,
                   tableVars>>

UpdateStreak(user_id) ==
    /\ Len(calls) < MaxStatements
    /\ LET done == update_streak(user_id, clock)
       IN  /\ users' = [users EXCEPT ![user_id] = done.row]
           /\ calls' = Append(calls, StreakCall("update_streak", user_id, FALSE,
                                                done.row, daily_activity,
                                                done.result))
    /\ UNCHANGED <<withVars, statVars, clock, schedVars, fnVars, dbVars, selVars,
                   daily_activity, req, served, decks, deck_cards, sqlite_sequence>>

GetUserStreak(user_id) ==
    /\ Len(calls) < MaxStatements
    /\ LET done == get_user_streak(user_id, clock)
       IN  /\ users' = [users EXCEPT ![user_id] = done.row]
           /\ calls' = Append(calls, StreakCall("get_user_streak", user_id, FALSE,
                                                done.row, daily_activity,
                                                done.result))
    /\ UNCHANGED <<withVars, statVars, clock, schedVars, fnVars, dbVars, selVars,
                   daily_activity, req, served, decks, deck_cards, sqlite_sequence>>

\* update_daily_activity: when it raises, both connections roll back; when
\* it does not, update_streak had nothing to write
UpdateDailyActivity(user_id, cards_reviewed, all_completed) ==
    /\ Len(calls) < MaxStatements
    /\ LET after == update_daily_activity(user_id, cards_reviewed,
                                           all_completed, clock)
       IN  IF after = Locked
           THEN /\ UNCHANGED daily_activity
                /\ calls' = Append(calls,
                              StreakCall("update_daily_activity", user_id,
                                         all_completed, users[user_id],
                                         daily_activity, OperationalError))
           ELSE /\ daily_activity' = after
                /\ calls' = Append(calls,
                              StreakCall("update_daily_activity", user_id,
                                         all_completed, users[user_id], after,
                                         Returned(None)))
    /\ UNCHANGED <<withVars, statVars, clock, schedVars, fnVars, dbVars, selVars,
                   users, req, served, decks, deck_cards, sqlite_sequence>>

StreakNext ==
    \/ Midnight
    \/ \E user_id \in Users : UpdateStreak(user_id)
    \/ \E user_id \in Users : GetUserStreak(user_id)
    \/ \E user_id \in Users, all_completed \in BOOLEAN :
          UpdateDailyActivity(user_id, 1, all_completed)

StreakSpec == Init /\ [][StreakNext]_vars

----------------------------------------------------------------------------
(* The counting functions on a deck snapshot: any deck of at most NumCards *)
(* cards, each new or with a row in Learning or in Review and a stored due *)
(* date, at any time.                                                      *)

\* a stored row in the phase given, due at due_date
StoredRow(user_id, f, due_date, is_learning) ==
    [ user_id |-> user_id, flashcard_id |-> f, ease_factor |-> 250,
      interval |-> IF is_learning = 1 THEN 0 ELSE 1, due_date |-> due_date,
      step |-> 1, is_learning |-> is_learning,
      repetitions |-> IF is_learning = 1 THEN 0 ELSE 1 ]

\* the tables in which each flashcard of cards is new or has one row
CountSnapshots(cards) ==
    { { StoredRow(1, f, row[f].due_date, row[f].is_learning) :
          f \in { g \in cards : row[g].due_date # None } } :
        row \in [cards -> [due_date : Times, is_learning : {0, 1}]
                            \cup {[due_date |-> None, is_learning |-> 1]}] }

CountInit ==
    /\ clock \in Times
    /\ SchedIdle
    /\ FnIdle
    /\ flashcards \in SUBSET (1 .. NumCards)
    /\ user_progress \in CountSnapshots(flashcards)
    /\ SelIdle
    /\ VoteIdle
    /\ MoreIdle

\* the deck list page: get_deck_statistics(user_id, deck['id']) and
\* get_user_flashcard_counts(user_id)
Compter(user_id) ==
    /\ counts = <<>>
    /\ counts' = <<[ now |-> clock,
                     deck |-> get_deck_statistics(user_id, 1, clock),
                     user |-> get_user_flashcard_counts(user_id, clock) ]>>
    /\ UNCHANGED <<withVars, tableVars, clock, schedVars, fnVars, dbVars, selVars, voteVars>>

CountNext == \E user_id \in Users : Compter(user_id)

CountSpec == CountInit /\ [][CountNext]_vars

----------------------------------------------------------------------------
(* Claims.                                                                 *)

\* C1: every state reached from a new card by ratings Again, Hard, Good and
\* Easy has ease_factor >= 1.3 and 0 <= interval <= 36500.
C1_EaseAndIntervalBounds ==
    /\ card.ease_factor >= 130
    /\ 0 <= card.interval
    /\ card.interval <= 36500

\* C6: the session Good, Good, Good, Good, Again on a new card gives, rating
\* by rating: (A) Learning, step 1, due in 10 minutes; (B) Review, interval 1,
\* repetitions 1, due in 1 day; (C) interval 6, repetitions 2; (D) interval
\* 15, repetitions 3, ease 2.5; (E) Learning, step 0, repetitions 0, ease
\* 2.3, due in 1 minute.
C6_DemoSession ==
    [][hist' # hist =>
        /\ hist' = <<Good>> =>
              /\ card'.is_learning /\ card'.step = 1
              /\ card'.due_date = clock + 10
        /\ hist' = <<Good, Good>> =>
              /\ ~card'.is_learning /\ card'.interval = 1
              /\ card'.repetitions = 1
              /\ card'.due_date = clock + 1440
        /\ hist' = <<Good, Good, Good>> =>
              /\ card'.interval = 6 /\ card'.repetitions = 2
        /\ hist' = <<Good, Good, Good, Good>> =>
              /\ card'.interval = 15 /\ card'.repetitions = 3
              /\ card'.ease_factor = 250
        /\ hist' = <<Good, Good, Good, Good, Again>> =>
              /\ card'.is_learning /\ card'.step = 0
              /\ card'.repetitions = 0 /\ card'.ease_factor = 230
              /\ card'.due_date = clock + 1
    ]_vars

\* the invocations made so far
Calls == 1 .. Len(ret)

\* what an invocation returned, its due_date taken relative to the clock the
\* invocation read
RelativeToClock(r) ==
    IF "raised" \in DOMAIN r.value THEN r.value
    ELSE [r.value EXCEPT !.due_date = r.value.due_date - r.at]

C7_ReviewHard ==
    \A k \in Calls :
        (~arg_card.is_learning /\ arg_rating = Hard) =>
            LET new == ret[k].value
            IN  /\ new.interval * 10 <= arg_card.interval * 12
                /\ arg_card.interval * 12 < (new.interval + 1) * 10
                /\ new.ease_factor >= arg_config.min_ease
                /\ new.ease_factor >= arg_card.ease_factor - 15
                /\ new.ease_factor \in {arg_config.min_ease, arg_card.ease_factor - 15}
                /\ new.repetitions = arg_card.repetitions + 1
                /\ new.due_date = ret[k].at + 1440 * new.interval
                /\ ~new.is_learning

C7_Witness ==
    /\ Len(ret) >= 1
    /\ ~arg_card.is_learning /\ arg_rating = Hard
    /\ arg_card.interval = 3 /\ ret[1].value.interval = 3
    /\ arg_card.ease_factor = 140 /\ ret[1].value.ease_factor = 130

\* C8: on a Review-phase card, Good gives interval 1 if repetitions = 0, 6 if
\* repetitions = 1, otherwise floor(interval * ease * interval_modifier),
\* capped at max_interval; due_date = now + interval' days; repetitions' =
\* repetitions + 1; ease unchanged.
C8_ReviewGood ==
    \A k \in Calls :
        (~arg_card.is_learning /\ arg_rating = Good) =>
            LET new == ret[k].value
                product == arg_card.interval * arg_card.ease_factor
                              * arg_config.interval_modifier
                cap == arg_config.max_interval
            IN  /\ arg_card.repetitions = 0 => new.interval = 1
                /\ arg_card.repetitions = 1 => new.interval = 6
                /\ arg_card.repetitions >= 2 =>
                      IF product >= cap * 10000
                      THEN new.interval = cap
                      ELSE /\ new.interval * 10000 <= product
                           /\ product < (new.interval + 1) * 10000
                /\ new.due_date = ret[k].at + 1440 * new.interval
                /\ new.repetitions = arg_card.repetitions + 1
                /\ new.ease_factor = arg_card.ease_factor
                /\ ~new.is_learning

C8_Witness ==
    /\ Len(ret) >= 1
    /\ ~arg_card.is_learning /\ arg_rating = Good
    /\ arg_config = TUNED_CONFIG
    /\ arg_card.repetitions = 2 /\ arg_card.interval = 7
    /\ arg_card.ease_factor = 165 /\ ret[1].value.interval = 12

\* C9: on a Review-phase card, Easy gives interval easy_interval if
\* repetitions = 0, otherwise floor(interval * ease * easy_bonus *
\* interval_modifier) with the ease factor as it was before the rating,
\* capped at max_interval; then ease' = ease + 0.15, with no upper bound, and
\* repetitions' = repetitions + 1.
C9_ReviewEasy ==
    \A k \in Calls :
        (~arg_card.is_learning /\ arg_rating = Easy) =>
            LET new == ret[k].value
                raw == IF arg_card.repetitions = 0 THEN arg_config.easy_interval
                       ELSE IntOfProduct(arg_card.interval,
                                <<arg_card.ease_factor, arg_config.easy_bonus,
                                  arg_config.interval_modifier>>)
            IN  /\ new.interval = IF raw > arg_config.max_interval
                                  THEN arg_config.max_interval ELSE raw
                /\ new.ease_factor = arg_card.ease_factor + 15
                /\ new.repetitions = arg_card.repetitions + 1
                /\ new.due_date = ret[k].at + 1440 * new.interval
                /\ ~new.is_learning

C9_Witness ==
    /\ Len(ret) >= 1
    /\ ~arg_card.is_learning /\ arg_rating = Easy
    /\ arg_config = DEFAULT_CONFIG
    /\ arg_card.repetitions = 2 /\ arg_card.interval = 100
    /\ arg_card.ease_factor = 355
    /\ ret[1].value.interval = 461 /\ ret[1].value.ease_factor = 370

\* C10: on a Review-phase card, Again moves the card to Learning with step 0,
\* repetitions 0, ease' = max(min_ease, ease - 0.2) and due_date = now +
\* learning_steps[0] minutes.
C10_ReviewAgain ==
    \A k \in Calls :
        (~arg_card.is_learning /\ arg_rating = Again) =>
            LET new == ret[k].value
            IN  /\ new.is_learning
                /\ new.step = 0
                /\ new.repetitions = 0
                /\ new.ease_factor >= arg_config.min_ease
                /\ new.ease_factor >= arg_card.ease_factor - 20
                /\ new.ease_factor \in {arg_config.min_ease, arg_card.ease_factor - 20}
                /\ new.due_date = ret[k].at + Head(arg_config.learning_steps)

C10_Witness ==
    /\ Len(ret) >= 1
    /\ ~arg_card.is_learning /\ arg_rating = Again
    /\ arg_card.step = 1 /\ arg_card.repetitions = 2
    /\ arg_card.ease_factor = 145 /\ ret[1].value.ease_factor = 130
    /\ ret[1].value.is_learning

\* the flashcards that are new for the user, and those that are due, in the
\* snapshot piocher_carte read
NewCards(user_id) ==
    { f \in flashcards :
        \A up \in user_progress : ~(up.flashcard_id = f /\ up.user_id = user_id) }

DueCards(user_id, now) ==
    { f \in flashcards :
        \E up \in user_progress :
            up.flashcard_id = f /\ up.user_id = user_id /\ up.due_date <= now }

\* C2: when the deck holds at least one new card and at least one due card,
\* piocher_carte returns a new card, however late the due cards are.
C2_NewBeforeDue ==
    (pioche # <<>> /\ NewCards(1) # {} /\ DueCards(1, pioche[1].now) # {})
        => pioche[1].carte.id \in NewCards(1)

C6_Witness ==
    /\ hist = <<Good, Good, Good, Good, Again>>
    /\ card.is_learning
    /\ clock = 1

\* the ratings received for a flashcard of a user, oldest first
RatingsOn(user_id, flashcard_id) ==
    SelectSeq(served, LAMBDA s : s.user_id = user_id /\ s.flashcard_id = flashcard_id)

\* every request received has made its write
AllWritten ==
    \A p \in Threads :
        req[p].pc \in {"idle", "written", "counted", "recorded", "error", "done"}

\* the fields but due_date of a new card rated first, then second
OneAfterTheOther(first, second) ==
    LET once  == calculate_next_review(NewCard(0), first, DEFAULT_CONFIG, 0)
        twice == calculate_next_review(once, second, DEFAULT_CONFIG, 0)
    IN  [ ease_factor |-> twice.ease_factor, interval |-> twice.interval,
          step |-> twice.step, is_learning |-> twice.is_learning,
          repetitions |-> twice.repetitions ]

\* C3: when two vote_card requests rate the same flashcard of a user, new
\* until then, the state stored once both have written is, due_date apart,
\* what the two ratings give applied one after the other in some order.
C3_NoLostUpdate ==
    \A u \in Users, f \in flashcards :
        LET on == RatingsOn(u, f)
        IN  (Len(on) = 2 /\ AllWritten) =>
                \E up \in user_progress :
                    /\ up.user_id = u /\ up.flashcard_id = f
                    /\ [ ease_factor |-> up.ease_factor, interval |-> up.interval,
                         step |-> up.step, is_learning |-> up.is_learning # 0,
                         repetitions |-> up.repetitions ]
                         \in { OneAfterTheOther(on[1].rating, on[2].rating),
                               OneAfterTheOther(on[2].rating, on[1].rating) }

\* C4: a flashcard for which only ratings outside {0, 1, 2, 3} were received
\* has no progress row: such a request stores nothing.
C4_InvalidRatingStoresNothing ==
    \A u \in Users, f \in flashcards :
        LET on == RatingsOn(u, f)
        IN  (\A k \in 1 .. Len(on) : on[k].rating \notin Ratings) =>
                \A up \in user_progress :
                    ~(up.user_id = u /\ up.flashcard_id = f)

\* C11: on a Learning-phase card, Good advances the step by one and sets
\* due_date = now + learning_steps[step + 1] minutes, still in Learning, when
\* the step is not the last one; on the last step the card graduates: Review,
\* interval = graduating_interval, repetitions = 1, due_date = now + interval
\* days.
C11_LearningGood ==
    \A k \in Calls :
        (arg_card.is_learning /\ arg_rating = Good) =>
            LET new == ret[k].value
                steps == arg_config.learning_steps
            IN  IF arg_card.step + 1 < Len(steps)
                THEN /\ new.is_learning
                     /\ new.step = arg_card.step + 1
                     /\ new.due_date = ret[k].at + steps[arg_card.step + 2]
                     /\ new.interval = arg_card.interval
                     /\ new.repetitions = arg_card.repetitions
                ELSE /\ ~new.is_learning
                     /\ new.interval = arg_config.graduating_interval
                     /\ new.repetitions = 1
                     /\ new.due_date = ret[k].at + 1440 * new.interval

C11_Witness ==
    /\ Len(ret) >= 2
    /\ arg_card.is_learning /\ arg_rating = Good
    /\ arg_config = TUNED_CONFIG /\ arg_card.step = 1
    /\ ret[2].value.step = 2 /\ ret[2].value.due_date = ret[2].at + 15

\* C12: on a Learning-phase card, whatever its step, Easy graduates the card:
\* Review, interval = easy_interval, repetitions = 1, due_date = now +
\* easy_interval days, ease factor unchanged.
C12_LearningEasy ==
    \A k \in Calls :
        (arg_card.is_learning /\ arg_rating = Easy) =>
            LET new == ret[k].value
            IN  /\ ~new.is_learning
                /\ new.interval = arg_config.easy_interval
                /\ new.repetitions = 1
                /\ new.due_date = ret[k].at + 1440 * arg_config.easy_interval
                /\ new.ease_factor = arg_card.ease_factor

C12_Witness ==
    /\ Len(ret) >= 1
    /\ arg_card.is_learning /\ arg_rating = Easy
    /\ arg_config = TUNED_CONFIG /\ arg_card.step = 2
    /\ arg_card.repetitions = 2 /\ arg_card.interval = 7
    /\ ret[1].value.interval = 5 /\ ~ret[1].value.is_learning

\* C13: on a Learning-phase card, Again sets step 0 and due_date = now +
\* learning_steps[0] minutes; ease factor, interval, repetitions and the phase
\* stay as they were.
C13_LearningAgain ==
    \A k \in Calls :
        (arg_card.is_learning /\ arg_rating = Again) =>
            ret[k].value =
                [arg_card EXCEPT
                    !.step = 0,
                    !.due_date = ret[k].at + arg_config.learning_steps[1]]

C13_Witness ==
    /\ Len(ret) >= 1
    /\ arg_card.is_learning /\ arg_rating = Again
    /\ arg_card.step = 1 /\ arg_card.interval = 7 /\ arg_card.ease_factor = 165
    /\ ret[1].value.step = 0 /\ ret[1].value.interval = 7

\* C14: on a Learning-phase card, Hard keeps the step and sets due_date = now
\* + learning_steps[step] minutes; ease factor, interval, repetitions and the
\* phase stay as they were.
C14_LearningHard ==
    \A k \in Calls :
        (arg_card.is_learning /\ arg_rating = Hard) =>
            ret[k].value =
                [arg_card EXCEPT
                    !.due_date = ret[k].at
                                   + arg_config.learning_steps[arg_card.step + 1]]

C14_Witness ==
    /\ Len(ret) >= 1
    /\ arg_card.is_learning /\ arg_rating = Hard
    /\ arg_config = TUNED_CONFIG /\ arg_card.step = 2
    /\ ret[1].value.step = 2 /\ ret[1].value.due_date = ret[1].at + 15

\* C15: with a configuration whose learning_steps is empty, every invocation
\* of calculate_next_review with one of the four ratings fails: none returns a
\* card.
C15_NoStepsAlwaysFails ==
    \A k \in Calls :
        (arg_config.learning_steps = <<>> /\ arg_rating \in Ratings) =>
            "raised" \in DOMAIN ret[k].value

\* the stored due dates of the user's cards
DueDates(user_id) == { up.due_date : up \in { r \in user_progress : r.user_id = user_id } }

\* C16: on a deck with no new card and at least one due card, piocher_carte
\* returns a due card, and no due card is later than it by more.
C16_MostOverdueFirst ==
    (pioche # <<>> /\ NewCards(1) = {} /\ DueCards(1, pioche[1].now) # {}) =>
        LET now == pioche[1].now
            carte == pioche[1].carte
        IN  /\ carte.id \in DueCards(1, now)
            /\ carte.due_date <= now
            /\ \A due_date \in DueDates(1) :
                   due_date <= now => now - due_date <= now - carte.due_date

C16_Witness ==
    /\ pioche # <<>>
    /\ flashcards = {1, 2, 3} /\ NewCards(1) = {}
    /\ pioche[1].now = 1440
    /\ DueDates(1) = {0, 1, 1441}
    /\ pioche[1].carte.due_date = 0

\* C17: on a deck where every card has progress and is due later than now,
\* piocher_carte returns a card with the smallest due date.
C17_SoonestFirst ==
    (pioche # <<>> /\ flashcards # {} /\ NewCards(1) = {}
       /\ DueCards(1, pioche[1].now) = {}) =>
        /\ pioche[1].carte.id \in flashcards
        /\ \A due_date \in DueDates(1) : pioche[1].carte.due_date <= due_date

C17_Witness ==
    /\ pioche # <<>>
    /\ flashcards = {1, 2, 3} /\ NewCards(1) = {}
    /\ pioche[1].now = 0
    /\ DueDates(1) = {1, 1440, 1441}
    /\ pioche[1].carte.due_date = 1

\* C18: piocher_carte returns None on a deck without cards, and only then: a
\* deck with a card yields one of its cards.
C18_NoneOnlyWhenEmpty ==
    pioche # <<>> =>
        /\ flashcards = {} => pioche[1].carte = NoCard
        /\ flashcards # {} => pioche[1].carte.id \in flashcards

C18_Witness ==
    /\ pioche # <<>>
    /\ flashcards = {}
    /\ pioche[1].carte = NoCard

\* floor of the product Good, or Easy, multiplies out on a Review-phase card
GrowthProduct(c, rating, config) ==
    IF rating = Easy
    THEN IntOfProduct(c.interval,
             <<c.ease_factor, config.easy_bonus, config.interval_modifier>>)
    ELSE IntOfProduct(c.interval, <<c.ease_factor, config.interval_modifier>>)

\* the branch of the rating takes the product for the interval
ProductUsed(c, rating) ==
    IF rating = Easy THEN c.repetitions # 0 ELSE c.repetitions >= 2

C20_StepInRange ==
    /\ "raised" \notin DOMAIN card
    /\ card.step >= 0
    /\ card.step < Len(DEFAULT_CONFIG.learning_steps)

C20_Witness ==
    /\ reviews >= 3
    /\ card.step = 1
    /\ ~card.is_learning
    /\ card.repetitions = 2

\* all of a sequence but its last element
Front(seq) == SubSeq(seq, 1, Len(seq) - 1)

\* the card a new card becomes by the ratings given, due date apart
RECURSIVE Replayed(_)
Replayed(ratings) ==
    IF ratings = <<>> THEN NewCard(0)
    ELSE calculate_next_review(Replayed(Front(ratings)), ratings[Len(ratings)],
                               DEFAULT_CONFIG, 0)

\* how many ratings other than Again the card received in Review phase since
\* its last lapse (Again in Review phase), or since it was created
RECURSIVE SuccessesSinceLapse(_)
SuccessesSinceLapse(ratings) ==
    IF ratings = <<>> THEN 0
    ELSE LET before == Replayed(Front(ratings))
             earlier == SuccessesSinceLapse(Front(ratings))
         IN  IF before.is_learning THEN earlier
             ELSE IF ratings[Len(ratings)] = Again THEN 0
             ELSE earlier + 1

\* C21 (as claimed): repetitions is the number of consecutive non-Again
\* Review-phase ratings the card received since its last lapse, or since its
\* creation.
C21_RepetitionsCountReviewSuccesses ==
    card.repetitions = SuccessesSinceLapse(hist)

\* C21 (amended): repetitions is 0 while the card is in Learning, and in
\* Review it is one more than that number: the graduation counts as the
\* first repetition.
C21_RepetitionsCountGraduationToo ==
    card.repetitions =
        SuccessesSinceLapse(hist) + (IF card.is_learning THEN 0 ELSE 1)

C21_Witness ==
    /\ hist = <<Good, Good, Again, Easy, Hard>>
    /\ ~card.is_learning
    /\ card.repetitions = 2

\* the counts by the stored due dates: new = no row, relearn = row in
\* Learning with due_date <= now, review = row in Review with due_date <= now
CountsByDueDate(user_id, now) ==
    LET due(l) == { f \in flashcards : \E up \in user_progress :
                      /\ up.flashcard_id = f /\ up.user_id = user_id
                      /\ up.is_learning = l /\ up.due_date <= now }
    IN  [ new     |-> Cardinality(NewCards(user_id)),
          relearn |-> Cardinality(due(1)),
          review  |-> Cardinality(due(0)) ]

\* C22: get_deck_statistics and get_user_flashcard_counts return new = the
\* cards without a row, relearn = the cards in Learning with due_date <= now,
\* review = the cards in Review with due_date <= now.
C22_CountsFollowDueDates ==
    counts # <<>> =>
        /\ counts[1].deck = CountsByDueDate(1, counts[1].now)
        /\ counts[1].user = CountsByDueDate(1, counts[1].now)

C25_StorageRoundTrip ==
    /\ Len(ret) >= 1 =>
          ret[1].is_learning = (IF arg_card.is_learning THEN 1 ELSE 0)
    /\ Len(ret) = 2 =>
          \A field \in {"ease_factor", "interval", "due_date", "step",
                         "is_learning", "repetitions"} :
              ret[2][field] = arg_card[field]

\* a Review card due at a time of day is encoded, and decoded later
C25_Witness ==
    /\ Len(ret) = 2
    /\ ~arg_card.is_learning
    /\ ret[1].is_learning = 0
    /\ arg_card.due_date % 1440 # 0
    /\ arg_card.due_date % 60 # 0
    /\ arg_card.due_date # clock
    /\ arg_card.ease_factor # DEFAULT_CONFIG.starting_ease

\* where in the list an event is
Positions(e) == { k \in 1 .. Len(order) : order[k] = e }

\* the contexts made from a generator function
GeneratorContexts ==
    { i \in 1 .. Len(program.contexts) :
        program.contexts[i].decorator \in {"as_context_manager", "context_manager"} }

\* position k of the list is before the body, after the body
BeforeBody(k) == \A b \in Positions(Event(0, "body")) : k < b
AfterBody(k) == \A b \in Positions(Event(0, "body")) : k > b

\* C29: with as_context_manager or context_manager on a generator function
\* and a body that completes normally, the code before the yield runs once,
\* before the body, the with-statement binds the yielded value, the code
\* after the yield runs once, after the body, and nested contexts run their
\* exit code in the reverse order of their entry.
C29_EnterBodyExitInOrder ==
    (phase = "done" /\ ~program.body_raises) =>
        /\ Cardinality(Positions(Event(0, "body"))) = 1
        /\ \A i \in GeneratorContexts :
              /\ Cardinality(Positions(Event(i, "enter"))) = 1
              /\ \A k \in Positions(Event(i, "enter")) : BeforeBody(k)
              /\ Cardinality(Positions(Event(i, "exit"))) = 1
              /\ \A k \in Positions(Event(i, "exit")) : AfterBody(k)
              /\ \E x \in 1 .. Len(exited) :
                    exited[x].ctx = i /\ exited[x].bound = start("plain", i).result
        /\ \A i, j \in GeneratorContexts :
              i < j =>
                  /\ \A k \in Positions(Event(i, "enter")),
                        l \in Positions(Event(j, "enter")) : k < l
                  /\ \A k \in Positions(Event(i, "exit")),
                        l \in Positions(Event(j, "exit")) : l < k

\* an as_context_manager context around a context_manager context
C29_Witness ==
    /\ phase = "done"
    /\ ~program.body_raises
    /\ Len(program.contexts) = 2
    /\ program.contexts[1].decorator = "as_context_manager"
    /\ program.contexts[2].decorator = "context_manager"
    /\ order = <<Event(1, "enter"), Event(2, "enter"), Event(0, "body"),
                 Event(2, "exit"), Event(1, "exit")>>

\* the __exit__ calls that were passed an exception
ExitsOnException == { x \in 1 .. Len(exited) : exited[x].exc # "" }

\* when the body raises, an as_context_manager context on a try/finally
\* generator runs its cleanup once and lets the exception through
CleanupOnceAndPropagates ==
    phase = "done" =>
        \A x \in ExitsOnException :
            (/\ program.contexts[exited[x].ctx].decorator = "as_context_manager"
             /\ program.contexts[exited[x].ctx].kind = "finally")
                => /\ Cardinality(Positions(Event(exited[x].ctx, "exit"))) = 1
                   /\ ~exited[x].returned

\* C30 as claimed: the cleanup of a try/finally generator runs once and the
\* exception propagates, and no decorator's context suppresses an exception
\* raised in the body.
C30_NoDecoratorSuppresses ==
    /\ CleanupOnceAndPropagates
    /\ \A x \in ExitsOnException : ~exited[x].returned

\* C30: the cleanup of a try/finally generator runs once and the exception
\* propagates; a context of context_manager, simple_context or
\* with_setup_teardown never suppresses an exception raised in the body, and
\* one of as_context_manager suppresses it exactly when the generator
\* catches it at the yield.
C30_SuppressedOnlyByTheGenerator ==
    /\ CleanupOnceAndPropagates
    /\ \A x \in ExitsOnException :
          exited[x].returned <=>
              /\ program.contexts[exited[x].ctx].decorator = "as_context_manager"
              /\ program.contexts[exited[x].ctx].kind = "except"
    /\ phase = "done" =>
          (raising = "" <=>
              \/ ~program.body_raises
              \/ \E i \in 1 .. Len(program.contexts) :
                    /\ program.contexts[i].decorator = "as_context_manager"
                    /\ program.contexts[i].kind = "except")

\* the body raises in a try/finally context inside a context whose
\* generator catches: the cleanup runs, then the exception is caught
C30_Witness ==
    /\ phase = "done"
    /\ program.body_raises
    /\ Len(program.contexts) = 2
    /\ program.contexts[1] = [decorator |-> "as_context_manager",
                               kind |-> "except", teardown |-> FALSE]
    /\ program.contexts[2] = [decorator |-> "as_context_manager",
                               kind |-> "finally", teardown |-> FALSE]
    /\ order = <<Event(1, "enter"), Event(2, "enter"), Event(0, "body"),
                 Event(2, "exit"), Event(1, "caught"), Event(1, "exit")>>
    /\ raising = ""

\* the calls of update_progress for a pair that committed, by position
Committed(user_id, flashcard_id) ==
    { i \in 1 .. Len(calls) :
        /\ calls[i].op = "update_progress"
        /\ calls[i].user_id = user_id
        /\ calls[i].flashcard_id = flashcard_id
        /\ calls[i].result = Returned(None) }

\* the most recent of them
LastCommitted(user_id, flashcard_id) ==
    calls[CHOOSE i \in Committed(user_id, flashcard_id) :
            \A j \in Committed(user_id, flashcard_id) : j <= i].card

\* the scheduling values a row of user_progress stores
StoredValues(up) ==
    [ ease_factor |-> up.ease_factor, interval |-> up.interval,
      due_date |-> up.due_date, step |-> up.step,
      is_learning |-> up.is_learning, repetitions |-> up.repetitions ]

\* the same values as update_progress received them
PassedValues(c) ==
    [ ease_factor |-> c.ease_factor, interval |-> c.interval,
      due_date |-> c.due_date, step |-> c.step,
      is_learning |-> IF c.is_learning THEN 1 ELSE 0,
      repetitions |-> c.repetitions ]

\* C23: after any sequence of update_progress calls, user_progress holds at
\* most one row per (user_id, flashcard_id), and that row carries the values
\* of the most recent call for the pair that committed; while the flashcard
\* is there, a pair with a committed call has its row.
C23_OneRowPerPairWithLastValues ==
    /\ \A up1, up2 \in user_progress :
          (up1.user_id = up2.user_id /\ up1.flashcard_id = up2.flashcard_id)
              => up1 = up2
    /\ \A up \in user_progress :
          /\ Committed(up.user_id, up.flashcard_id) # {}
          /\ StoredValues(up)
                = PassedValues(LastCommitted(up.user_id, up.flashcard_id))
    /\ \A user_id \in TableUsers, flashcard_id \in flashcards :
          Committed(user_id, flashcard_id) # {}
              => get_user_progress(user_id, flashcard_id) # {NoRow}

\* a pair written twice with different values, the second time last
C23_Witness ==
    /\ Len(calls) >= 2
    /\ Cardinality(Committed(1, 1)) = 2
    /\ \E i, j \in Committed(1, 1) : i < j /\ calls[i].card # calls[j].card
    /\ \E up \in user_progress : up.user_id = 1 /\ up.flashcard_id = 1

\* C26: two calls of create_deck with the same name and the same user, one
\* after the other, return the same id, and one deck has that name.
C26_CreateDeckIdempotent ==
    \A i \in 2 .. Len(calls) :
        (/\ i = Len(calls)
         /\ calls[i].op = "create_deck"
         /\ calls[i - 1].op = "create_deck"
         /\ calls[i].name = calls[i - 1].name
         /\ calls[i].user_id = calls[i - 1].user_id
         /\ calls[i].result.raised = "")
            => /\ calls[i].result = calls[i - 1].result
               /\ Cardinality({ d \in decks : d.name = calls[i].name }) = 1

\* C27: after delete_deck(d), whatever create_flashcard and update_progress
\* calls came before, no flashcard has deck_id = d and every row of
\* user_progress refers to a flashcard that is there.
C27_DeleteCascades ==
    (calls # <<>> /\ calls[Len(calls)].op = "delete_deck")
        => /\ \A f \in deck_cards : f.deck_id # calls[Len(calls)].deck_id
           /\ \A up \in user_progress :
                 \E f \in deck_cards : f.id = up.flashcard_id

\* a deck is deleted whose flashcard had a progress row
C27_Witness ==
    /\ Len(calls) = 4
    /\ calls[2].op = "create_flashcard"
    /\ calls[2].deck_id = 1
    /\ calls[2].result = Returned(1)
    /\ calls[3].op = "update_progress"
    /\ calls[3].flashcard_id = 1
    /\ calls[3].result = Returned(None)
    /\ calls[4].op = "delete_deck"
    /\ calls[4].deck_id = 1

\* the call being made is update_progress(user_id, flashcard_id, ...)
UpdatesProgress(user_id, flashcard_id) ==
    /\ Len(calls') = Len(calls) + 1
    /\ calls'[Len(calls')].op = "update_progress"
    /\ calls'[Len(calls')].user_id = user_id
    /\ calls'[Len(calls')].flashcard_id = flashcard_id

\* C28: update_progress for (u1, f) leaves get_user_progress(u2, f2) as it
\* was for every other user of f and for every other flashcard.
C28_ProgressIsolated ==
    [][\A u1 \in TableUsers, f \in FlashcardIdInputs :
         UpdatesProgress(u1, f) =>
             \A u2 \in TableUsers, f2 \in FlashcardIdInputs :
                 (u2 # u1 \/ f2 # f) =>
                     get_user_progress(u2, f2)' = get_user_progress(u2, f2)]_vars

\* user 1 writes a flashcard on which user 2 has a row of other values
C28_Witness ==
    /\ Len(calls) = 4
    /\ calls[3].op = "update_progress"
    /\ calls[3].user_id = 2
    /\ calls[3].flashcard_id = 1
    /\ calls[4].op = "update_progress"
    /\ calls[4].user_id = 1
    /\ calls[4].flashcard_id = 1
    /\ calls[4].card # calls[3].card
    /\ get_user_progress(1, 1) # {NoRow}
    /\ \E up \in get_user_progress(2, 1) \ {NoRow} :
          StoredValues(up) = PassedValues(calls[3].card)

\* C35: in every state reached from a new card by valid ratings, a card in
\* Review has repetitions >= 1 and interval >= 1, so the repetitions = 0
\* branches of Review/Good and Review/Easy are not taken.
C35_ReviewHasRepetitionAndInterval ==
    ~card.is_learning => (card.repetitions >= 1 /\ card.interval >= 1)

\* a card back in Review after a lapse, graduated by Good
C35_Witness ==
    /\ ~card.is_learning
    /\ card.repetitions = 1
    /\ card.interval = DEFAULT_CONFIG.graduating_interval
    /\ card.ease_factor < DEFAULT_CONFIG.starting_ease

\* the interval a rating gives from the card as it is
IntervalAfter(rating) ==
    calculate_next_review(card, rating, DEFAULT_CONFIG, clock).interval

\* C36 as claimed: from every reachable Review state the interval of Easy
\* is >= the interval of Good, which is >= the interval of Hard.
C36_EasyGoodHardOrdered ==
    ~card.is_learning =>
        /\ IntervalAfter(Easy) >= IntervalAfter(Good)
        /\ IntervalAfter(Good) >= IntervalAfter(Hard)

\* the card has just graduated by Good: Good gives 6 days, Easy the product
JustGraduatedByGood ==
    card.repetitions = 1 /\ card.interval = DEFAULT_CONFIG.graduating_interval

\* C36: from a reachable Review state the interval of Easy is >= that of
\* Good unless the card has just graduated by Good, and the interval of
\* Good is >= that of Hard unless Hard goes past max_interval.
C36_OrderedButAfterGraduationAndAtTheCap ==
    ~card.is_learning =>
        /\ ~JustGraduatedByGood => IntervalAfter(Easy) >= IntervalAfter(Good)
        /\ IntervalAfter(Hard) <= DEFAULT_CONFIG.max_interval
               => IntervalAfter(Good) >= IntervalAfter(Hard)

\* a card reviewed several times on which the three ratings differ
C36_Witness ==
    /\ ~card.is_learning
    /\ card.repetitions >= 2
    /\ IntervalAfter(Easy) > IntervalAfter(Good)
    /\ IntervalAfter(Good) > IntervalAfter(Hard)
    /\ IntervalAfter(Hard) > card.interval

\* the card after n more Good ratings
RECURSIVE AfterGoods(_, _)
AfterGoods(c, n) ==
    IF n = 0 THEN c
    ELSE AfterGoods(calculate_next_review(c, Good, DEFAULT_CONFIG, clock), n - 1)

\* C38: from a reachable Learning state at step s, len(learning_steps) - s
\* Good ratings in a row, and no fewer, bring the card to Review, at most 2
\* under the default configuration, and one Easy rating does from any step.
C38_GraduationInBoundedSteps ==
    card.is_learning =>
        LET n == Len(DEFAULT_CONFIG.learning_steps) - card.step
        IN  /\ n \in 1 .. 2
            /\ ~AfterGoods(card, n).is_learning
            /\ \A k \in 0 .. n - 1 : AfterGoods(card, k).is_learning
            /\ ~calculate_next_review(card, Easy, DEFAULT_CONFIG, clock).is_learning

\* a card relearning after a lapse, on the last step
C38_Witness ==
    /\ card.is_learning
    /\ card.step = Len(DEFAULT_CONFIG.learning_steps) - 1
    /\ card.ease_factor < DEFAULT_CONFIG.starting_ease
    /\ card.interval > 0

\* the cards tied with the one drawn: new like it, or due at the same time
TiedWith(carte) ==
    { f \in flashcards :
        IF carte.due_date = None
        THEN \A up \in user_progress : up.flashcard_id # f \/ up.user_id # 1
        ELSE \E up \in user_progress :
               up.flashcard_id = f /\ up.user_id = 1 /\ up.due_date = carte.due_date }

\* C32: among cards that are new together, or due with the same lateness,
\* piocher_carte returns the one of smallest flashcard id, in whatever order
\* the store returns the rows.
C32_TieBrokenBySmallestId ==
    (pioche # <<>> /\ pioche[1].carte # NoCard) =>
        \A f \in TiedWith(pioche[1].carte) : pioche[1].carte.id <= f

\* C37: for every snapshot and time with a card that is new or due, the
\* card piocher_carte returns is the first of the list get_cards_to_review
\* returns.
C37_SelectorsAgree ==
    (pioche # <<>> /\ pioche[1].cards_to_review # <<>>) =>
        pioche[1].carte.id = pioche[1].cards_to_review[1]

\* the calls of one function, by position
CallsOf(op) == { i \in 1 .. Len(calls) : calls[i].op = op }

\* C33: update_streak sets streak_count to 1 when there is no
\* last_streak_date or it is older than yesterday, to the previous value + 1
\* when it is yesterday, and changes nothing when it is today; in the first
\* two cases last_streak_date becomes today.  So the streak grows by at most
\* 1 in a calendar day.
C33_StreakFollowsTheDays ==
    /\ \A i \in CallsOf("update_streak") :
          LET c == calls[i]
              last_date == c.before.last_streak_date
          IN  /\ (last_date = None \/ last_date < c.today - 1)
                     => c.after = [streak_count |-> 1, last_streak_date |-> c.today]
              /\ (last_date # None /\ last_date = c.today - 1)
                     => c.after = [streak_count |-> c.before.streak_count + 1,
                                   last_streak_date |-> c.today]
              /\ (last_date # None /\ last_date = c.today) => c.after = c.before
              /\ c.result = Returned(c.after.streak_count)
    /\ \A i, j \in 1 .. Len(calls) :
          (i <= j /\ calls[i].today = calls[j].today)
              => calls[j].after.streak_count <= calls[i].before.streak_count + 1

\* a streak of two days, a second call on the second day, and a call two
\* days later
C33_Witness ==
    /\ Len(calls) = 4
    /\ \A i \in 1 .. 4 : calls[i].op = "update_streak"
    /\ calls[1].after.streak_count = 1
    /\ calls[2].after.streak_count = 2
    /\ calls[3].today = calls[2].today
    /\ calls[3].after.streak_count = 2
    /\ calls[4].today = calls[3].today + 2
    /\ calls[4].after.streak_count = 1

\* C34: update_daily_activity(user, n, all_completed = true) completes
\* without error, the day's row of daily_activity is upserted and the streak
\* is what update_streak makes it.
C34_ActivityAndStreakCommitted ==
    \A i \in CallsOf("update_daily_activity") :
        calls[i].all_completed =>
            /\ calls[i].result.raised = ""
            /\ \E row \in calls[i].activity :
                  /\ row.user_id = calls[i].user_id
                  /\ row.date = calls[i].today
                  /\ row.all_cards_completed
            /\ calls[i].after.last_streak_date = calls[i].today

\* the card vote_card builds from the row stored for a flashcard, or AnkiCard()
StoredCard(user_id, flashcard_id, now) ==
    LET rows == { up \in user_progress :
                    up.user_id = user_id /\ up.flashcard_id = flashcard_id }
    IN  IF rows = {} THEN {NewCard(now)}
        ELSE { AnkiCard(up.ease_factor, up.interval, up.due_date, up.step,
                        up.is_learning # 0, up.repetitions, now) : up \in rows }

\* the row update_progress stores for a card
RowOf(user_id, flashcard_id, c) ==
    [ user_id |-> user_id, flashcard_id |-> flashcard_id,
      ease_factor |-> c.ease_factor, interval |-> c.interval,
      due_date |-> c.due_date, step |-> c.step,
      is_learning |-> IF c.is_learning THEN 1 ELSE 0,
      repetitions |-> c.repetitions ]

\* the request of thread p goes from one step of vote_card to the next
Steps(p, from, to) == req[p].pc = from /\ req'[p].pc = to

\* C31: in a vote_card request with a valid rating, the row the upsert
\* stores is calculate_next_review of the state stored until then (a new
\* card when there was none), computed at a time of the request, and the
\* snapshot the next card is picked from holds the row the request stored.
C31_StoredIsNextOfStored ==
    [][\A p \in Threads :
          LET r == req[p]
          IN  /\ (Steps(p, "computed", "written") /\ r.rating \in Ratings) =>
                    \E t \in 0 .. clock :
                      \E old \in StoredCard(r.user_id, r.flashcard_id, t) :
                        RowOf(r.user_id, r.flashcard_id,
                              calculate_next_review(old, r.rating, DEFAULT_CONFIG, t))
                            \in user_progress'
              /\ (Steps(p, "recorded", "done") /\ r.rating \in Ratings) =>
                    RowOf(r.user_id, r.flashcard_id, r.new_card) \in user_progress
      ]_vars

\* a request has written, picked its next card and ended
C31_Witness ==
    \E p \in Threads :
        /\ req[p].pc = "done"
        /\ req[p].rating \in Ratings
        /\ req[p].carte # NoCard
        /\ \E up \in user_progress :
              up.user_id = req[p].user_id /\ up.flashcard_id = req[p].flashcard_id

\* another flashcard than c is new or due for the user: piocher_carte's test
\* due_date <= now on the rows stored
OtherNewOrDue(user_id, c, now) ==
    \E row \in JoinedRows(user_id) :
        row.id # c /\ (row.due_date = None \/ row.due_date <= now)

\* the flashcard c of the user has a row, and no row of it is due
StoredLater(user_id, c, now) ==
    /\ \E up \in user_progress : up.user_id = user_id /\ up.flashcard_id = c
    /\ \A up \in user_progress :
          (up.user_id = user_id /\ up.flashcard_id = c) => up.due_date > now

GeneratorDecorators == {"as_context_manager", "context_manager"}

\* the same generator function under the other of the two decorators
OtherDecorator(ctx) ==
    [ctx EXCEPT !.decorator = CHOOSE d \in GeneratorDecorators : d # ctx.decorator]

\* the context left by the k-th __exit__ of the with-statement would have
\* gone the same way under the other decorator: same enter code and value
\* bound, same exit code, same answer to the exception
SameUnderOther(k) ==
    LET e == exited[k]
        ctx == program.contexts[e.ctx]
        other == OtherDecorator(ctx)
    IN  /\ enter(other, e.ctx).events = enter(ctx, e.ctx).events
        /\ enter(other, e.ctx).result = e.bound
        /\ exit(other, e.ctx, e.exc).events = exit(ctx, e.ctx, e.exc).events
        /\ exit(other, e.ctx, e.exc).returned = e.returned

\* C40 as stated: context_manager and as_context_manager give the same
\* setup, body and teardown steps and the same outcome for the same
\* one-yield generator function, whether the body completes or raises.
C40_SameStepsAndOutcome ==
    \A k \in 1 .. Len(exited) :
        program.contexts[exited[k].ctx].decorator \in GeneratorDecorators =>
            SameUnderOther(k)

\* C40 amended: they give the same steps and the same outcome when no
\* exception reaches the context, and when one does for a generator that
\* wraps its yield in try/finally.
C40_SameWithoutExceptionOrWithFinally ==
    \A k \in 1 .. Len(exited) :
        LET ctx == program.contexts[exited[k].ctx]
        IN  ( /\ ctx.decorator \in GeneratorDecorators
              /\ exited[k].exc = "" \/ ctx.kind = "finally" ) =>
                SameUnderOther(k)

\* a context_manager context around a try/finally generator was left by the
\* exception of the body, which reached the caller
C40_Witness ==
    /\ phase = "done"
    /\ raising = ValueError
    /\ \E k \in 1 .. Len(exited) :
          /\ program.contexts[exited[k].ctx].decorator = "context_manager"
          /\ program.contexts[exited[k].ctx].kind = "finally"
          /\ exited[k].exc = ValueError
====
